---- MODULE Spec2Model ----
(***************************************************************************)
(* A model of actionize (aol/actionize): the action-type allocator, the    *)
(* reducer builders of its three source files (the module-level functions  *)
(* of index.js, the Actionize class, and ActionizeBuild), dispatch, and    *)
(* the handle(...) composite-key encoding.                                 *)
(*                                                                         *)
(* JavaScript strings are modelled as sequences of one-character strings,  *)
(* so that concatenation, split('|') and the reserved-character tests are  *)
(* computed character by character.                                        *)
(***************************************************************************)
EXTENDS Integers, Sequences, FiniteSets, TLC

(***************************************************************************)
(* Bounds of the model.                                                    *)
(***************************************************************************)
\* Operations of one behaviour of SpecRegistry.
MaxCalls == 3
\* A build of SpecUnchecked is among the first MaxUnchecked operations of a
\* behaviour.
MaxUnchecked == 2
\* Reducer builds attempted in one behaviour.
MaxBuilds == 2
\* Entries of one action map.
MaxKeys == 2
\* Items of one handle(...) call.
MaxItems == 3
\* Reducers combined or nested in one behaviour.
MaxComposed == 2
\* Reducers of one composition: those built and those combined or nested.
MaxParts == 3

\* Creator invocations of one run.
MaxInvoked == 3

(***************************************************************************)
(* Strings.                                                                *)
(***************************************************************************)
\* The characters input strings are made of: one ordinary letter, the
\* nested-lookup sub-delimiter and the three characters the types reserve.
Char == {"a", ".", "|", ":", "#"}

Digits == <<"0", "1", "2", "3", "4", "5", "6", "7", "8", "9">>

\* A value that is not a string (the {} of the 'rejects invalid names' test).
NotAString == <<"{}">>

IsString(v) == \A i \in 1..Len(v) : v[i] \in Char \cup {Digits[d] : d \in 1..10}

\* String(n) for a number n >= 0, as '#' + tick converts it.
RECURSIVE NumToStr(_)
NumToStr(n) ==
    IF n < 10 THEN <<Digits[n + 1]>>
    ELSE NumToStr(n \div 10) \o <<Digits[(n % 10) + 1]>>

\* str.match(/[...]/) for a character class: some character is in the class.
Matches(str, class) == \E i \in 1..Len(str) : str[i] \in class

Str1 == {<<c>> : c \in Char}
Str2 == {<<"a", c>> : c \in Char}

\* The namespaces and keys the allocator is called with.
NamespaceInputs == {<<>>} \cup Str1 \cup {NotAString}
KeyInputs == {<<>>} \cup Str1 \cup Str2

(***************************************************************************)
(* State.                                                                  *)
(***************************************************************************)
VARIABLES
    api,                \* which source file's API the program uses
    actionTypeTicks,    \* globalActionTypeTicks / this._actionTypeTicks
    actionTypes,        \* globalActionTypes / this._actionTypes
    handlerType,        \* the .type property of each raw handler function
    reducers,           \* the reducers built so far, in build order
    returned,           \* history: (namespace, key) -> the names returned for it, in order
    nCalls,             \* history: direct allocator calls made so far
    nBuilds,            \* history: reducer builds attempted so far
    composed,           \* the reducers made by combine and nest, in order
    nComposed,          \* history: combine and nest calls made so far
    actionize,          \* the fields of the Actionize instance of the program
    invoked,            \* history: the creators invoked so far, by name, in order
    last                \* the last operation: its inputs and its outcome

vars == <<api, actionTypeTicks, actionTypes, handlerType, reducers,
          returned, nCalls, nBuilds, composed, nComposed, actionize, invoked,
          last>>

\* The three APIs of the repository.
Apis == {"index", "Actionize", "ActionizeBuild"}

NoOp == [op |-> "none"]

(***************************************************************************)
(* The action-type allocator.                                              *)
(***************************************************************************)
\* ticks[prefix] || 0
TickOf(ticks, prefix) == IF prefix \in DOMAIN ticks THEN ticks[prefix] ELSE 0

Threw(message, ticks, types) ==
    [ok |-> FALSE, error |-> message, name |-> <<>>, ticks |-> ticks, types |-> types]

\* A mutant of createActionType: the disambiguation suffix is never appended.
createActionType_NoSuffix(ticks, types, namespace, key) ==
    IF ~IsString(namespace) THEN Threw("namespace must be a string.", ticks, types)
    ELSE IF Matches(namespace, {"#", ":", "|"})
    THEN Threw("namespace cannot contain characters", ticks, types)
    ELSE IF key = <<>> \/ Matches(key, {"#", ":", ".", "|"})
    THEN Threw("key cannot contain characters", ticks, types)
    ELSE LET prefix == namespace \o <<":">> \o key
             tick == TickOf(ticks, prefix) + 1
             name == <<"|">> \o prefix
         IN [ok |-> TRUE, error |-> "", name |-> name,
             ticks |-> [p \in DOMAIN ticks \cup {prefix} |->
                            IF p = prefix THEN tick ELSE ticks[p]],
             types |-> types \cup {name}]

\* A mutant of createActionType: the counter is bumped before the key is checked.
createActionType_TickFirst(ticks, types, namespace, key) ==
    IF ~IsString(namespace) THEN Threw("namespace must be a string.", ticks, types)
    ELSE IF Matches(namespace, {"#", ":", "|"})
    THEN Threw("namespace cannot contain characters", ticks, types)
    ELSE LET prefix == namespace \o <<":">> \o key
             tick == TickOf(ticks, prefix) + 1
             bumped == [p \in DOMAIN ticks \cup {prefix} |->
                            IF p = prefix THEN tick ELSE ticks[p]]
             name == <<"|">> \o prefix \o (IF tick = 1 THEN <<>> ELSE <<"#">> \o NumToStr(tick))
         IN IF key = <<>> \/ Matches(key, {"#", ":", ".", "|"})
            THEN Threw("key cannot contain characters", bumped, types)
            ELSE [ok |-> TRUE, error |-> "", name |-> name,
                  ticks |-> bumped, types |-> types \cup {name}]

\* A mutant of createActionType: the suffix counts from the second call.
createActionType_SuffixOffByOne(ticks, types, namespace, key) ==
    IF ~IsString(namespace) THEN Threw("namespace must be a string.", ticks, types)
    ELSE IF Matches(namespace, {"#", ":", "|"})
    THEN Threw("namespace cannot contain characters", ticks, types)
    ELSE IF key = <<>> \/ Matches(key, {"#", ":", ".", "|"})
    THEN Threw("key cannot contain characters", ticks, types)
    ELSE LET prefix == namespace \o <<":">> \o key
             tick == TickOf(ticks, prefix) + 1
             name == <<"|">> \o prefix
                        \o (IF tick = 1 THEN <<>> ELSE <<"#">> \o NumToStr(tick - 1))
         IN [ok |-> TRUE, error |-> "", name |-> name,
             ticks |-> [p \in DOMAIN ticks \cup {prefix} |->
                            IF p = prefix THEN tick ELSE ticks[p]],
             types |-> types \cup {name}]

\* createActionType(namespace, key) on the registry (ticks, types): the
\* outcome, the name returned and the registry it leaves.
createActionType(ticks, types, namespace, key) ==
    IF ~IsString(namespace) THEN Threw("namespace must be a string.", ticks, types)
    ELSE IF Matches(namespace, {"#", ":", "|"})
    THEN Threw("namespace cannot contain characters", ticks, types)
    ELSE IF key = <<>> \/ Matches(key, {"#", ":", ".", "|"})
    THEN Threw("key cannot contain characters", ticks, types)
    ELSE LET prefix == namespace \o <<":">> \o key
             tick == TickOf(ticks, prefix) + 1
             name == <<"|">> \o prefix \o (IF tick = 1 THEN <<>> ELSE <<"#">> \o NumToStr(tick))
         IN [ok |-> TRUE, error |-> "", name |-> name,
             ticks |-> [p \in DOMAIN ticks \cup {prefix} |->
                            IF p = prefix THEN tick ELSE ticks[p]],
             types |-> types \cup {name}]

\* Actionize.prototype._createActionType: the same allocator on the
\* instance's own registry.
Actionize_createActionType(ticks, types, namespace, key) ==
    IF ~IsString(namespace) THEN Threw("namespace must be a string.", ticks, types)
    ELSE IF Matches(namespace, {"#", ":", "|"})
    THEN Threw("namespace cannot contain characters", ticks, types)
    ELSE IF key = <<>> \/ Matches(key, {"#", ":", ".", "|"})
    THEN Threw("key cannot contain characters", ticks, types)
    ELSE LET prefix == namespace \o <<":">> \o key
             tick == TickOf(ticks, prefix) + 1
             name == <<"|">> \o prefix \o (IF tick = 1 THEN <<>> ELSE <<"#">> \o NumToStr(tick))
         IN [ok |-> TRUE, error |-> "", name |-> name,
             ticks |-> [p \in DOMAIN ticks \cup {prefix} |->
                            IF p = prefix THEN tick ELSE ticks[p]],
             types |-> types \cup {name}]



(***************************************************************************)
(* Values: states, messages, function objects.                             *)
(***************************************************************************)
\* undefined, as a state or as a message.
Undefined == [js |-> "undefined"]

\* A state object the caller made; two of them are equal only if they are
\* the same object.
Object(id) == [js |-> "object", id |-> id]

\* The absent .type of a function or of a message.
NoType == <<"undefined">>

\* if (type): neither undefined nor the empty string.
Truthy(type) == type # NoType /\ type # <<>>

\* The raw handler functions of the program.  What a handler computes is
\* left open: the value it returns is a fresh object that records the
\* handler and the arguments it was called with.
HandlerAt(i) == <<"h", i>>
Handlers == {HandlerAt(i) : i \in 1..MaxKeys}

\* Values of an action map that are not functions: a primitive (123, true,
\* 'yo') and an object ({}).
PrimitiveValue == <<"v", 1>>
ObjectValue == <<"o", 1>>

Apply(h, state, action) ==
    [js |-> "result", of |-> h, state |-> state, action |-> action]

\* { ...action, type: type }
SpreadWithType(action, type) ==
    [type |-> type,
     payload |-> IF action = Undefined THEN "none" ELSE action.payload]

\* The three kinds of function object that carry a type tag or are
\* registered in a dispatch table.
RawHandler(h) == [fn |-> "handler", id |-> h]
BuildActionCall(rid, key, h, type) ==
    [fn |-> "actionCall", reducer |-> rid, key |-> key, handler |-> h, type |-> type]
ClassActionCall(rid, key, type) ==
    [fn |-> "dispatchCall", reducer |-> rid, key |-> key, type |-> type]

\* f.type
TypeTag(f, tags) == IF f.fn = "handler" THEN tags[f.id] ELSE f.type

\* The raw handler a registered function object runs.
HandlerOf(f) == IF f.fn = "handler" THEN f.id ELSE f.handler

(***************************************************************************)
(* Composite handling keys.                                                *)
(***************************************************************************)
\* str.split(sep): the segments between the separators, empty ones included.
RECURSIVE Split(_, _)
Split(str, sep) ==
    IF ~Matches(str, {sep}) THEN <<str>>
    ELSE LET i == CHOOSE j \in 1..Len(str) :
                      str[j] = sep /\ \A k \in 1..(j - 1) : str[k] # sep
         IN <<SubSeq(str, 1, i - 1)>> \o Split(SubSeq(str, i + 1, Len(str)), sep)

\* A mutant of CompositeTypes: the key is not split.
CompositeTypes_Whole(key) == <<key>>

\* key.split('|').filter(key => !!key).map(key => '|' + key)
CompositeTypes(key) ==
    LET kept == SelectSeq(Split(key, "|"), LAMBDA seg : seg # <<>>)
    IN [i \in 1..Len(kept) |-> <<"|">> \o kept[i]]

(***************************************************************************)
(* Dispatch tables and named properties.  Both are JavaScript objects:     *)
(* their keys are kept in insertion order.                                 *)
(***************************************************************************)
\* The names every plain object inherits from Object.prototype.
ObjectPrototypeKeys ==
    { <<"c","o","n","s","t","r","u","c","t","o","r">>,
      <<"t","o","S","t","r","i","n","g">>,
      <<"t","o","L","o","c","a","l","e","S","t","r","i","n","g">>,
      <<"v","a","l","u","e","O","f">>,
      <<"h","a","s","O","w","n","P","r","o","p","e","r","t","y">>,
      <<"i","s","P","r","o","t","o","t","y","p","e","O","f">>,
      <<"p","r","o","p","e","r","t","y","I","s","E","n","u","m","e","r","a","b","l","e">>,
      <<"_","_","p","r","o","t","o","_","_">>,
      <<"_","_","d","e","f","i","n","e","G","e","t","t","e","r","_","_">>,
      <<"_","_","d","e","f","i","n","e","S","e","t","t","e","r","_","_">>,
      <<"_","_","l","o","o","k","u","p","G","e","t","t","e","r","_","_">>,
      <<"_","_","l","o","o","k","u","p","S","e","t","t","e","r","_","_">> }

\* The positions of name among the own keys of a table or property list.
Slot(entries, name) == {i \in 1..Len(entries) : entries[i].name = name}

\* A mutant of PushHandler: the handler is put in front of the list.
PushHandler_Unshift(table, name, f) ==
    IF Slot(table, name) # {}
    THEN [i \in 1..Len(table) |->
             IF table[i].name = name
             THEN [name |-> name, handlers |-> <<f>> \o table[i].handlers]
             ELSE table[i]]
    ELSE Append(table, [name |-> name, handlers |-> <<f>>])

\* const list = actionHandlers[name] || (actionHandlers[name] = []); list.push(f)
PushHandler(table, name, f) ==
    IF Slot(table, name) # {}
    THEN [i \in 1..Len(table) |->
             IF table[i].name = name
             THEN [name |-> name, handlers |-> Append(table[i].handlers, f)]
             ELSE table[i]]
    ELSE Append(table, [name |-> name, handlers |-> <<f>>])

\* A mutant of Register: a name that occurs again later in the list is
\* passed over.
RECURSIVE Register_Once(_, _, _)
Register_Once(table, names, f) ==
    IF names = <<>> THEN table
    ELSE Register_Once(IF \E i \in 2..Len(names) : names[i] = Head(names)
                       THEN table
                       ELSE PushHandler(table, Head(names), f),
                       Tail(names), f)

\* actionTypes.forEach(name => ... list.push(f))
RECURSIVE Register(_, _, _)
Register(table, names, f) ==
    IF names = <<>> THEN table
    ELSE Register(PushHandler(table, Head(names), f), Tail(names), f)

\* reducerFunc[key] = f
SetProp(props, key, f) ==
    IF Slot(props, key) # {}
    THEN [i \in 1..Len(props) |->
             IF props[i].name = key THEN [name |-> key, value |-> f] ELSE props[i]]
    ELSE Append(props, [name |-> key, value |-> f])

\* key[0] === '|'
IsCompositeKey(key) == key # <<>> /\ key[1] = "|"

\* typeof value === 'function'
IsFunction(value) == value \in Handlers

(***************************************************************************)
(* The reducer builders.  A build runs over the entries of the action map  *)
(* in key order; acc is what it has done so far.                           *)
(***************************************************************************)
\* The history of returned names after an allocation with outcome r.
Record(hist, namespace, key, r) ==
    IF ~r.ok THEN hist
    ELSE LET pair == <<namespace, key>>
             before == IF pair \in DOMAIN hist THEN hist[pair] ELSE <<>>
         IN [q \in DOMAIN hist \cup {pair} |->
                IF q = pair THEN Append(before, r.name) ELSE hist[q]]

StartBuild ==
    [ok |-> TRUE, error |-> "", ticks |-> actionTypeTicks, types |-> actionTypes,
     hist |-> returned, tags |-> handlerType, table |-> <<>>, props |-> <<>>,
     direct |-> <<>>]

Fail(acc, r) ==
    [acc EXCEPT !.ok = FALSE, !.error = r.error, !.ticks = r.ticks, !.types = r.types]

\* One entry of the action map in reducer(namespace, initialState, actions)
\* of index.js.  The module is strict code: setting .type on a primitive
\* throws a TypeError, after the type was allocated.
IndexEntry(acc, rid, namespace, entry) ==
    LET key == entry.key
        f == RawHandler(entry.value)
    IN IF IsCompositeKey(key)
       THEN [acc EXCEPT !.table = Register(acc.table, CompositeTypes(key), f)]
       ELSE LET r == createActionType(acc.ticks, acc.types, namespace, key)
            IN IF ~r.ok THEN Fail(acc, r)
               ELSE IF entry.value = PrimitiveValue
               THEN [Fail(acc, [r EXCEPT !.error = "Cannot create property 'type'"])
                        EXCEPT !.hist = Record(acc.hist, namespace, key, r)]
               ELSE [acc EXCEPT
                        !.ticks = r.ticks, !.types = r.types,
                        !.hist = Record(acc.hist, namespace, key, r),
                        !.tags = [acc.tags EXCEPT ![entry.value] = r.name],
                        !.props = SetProp(acc.props, key, f),
                        !.direct = Append(acc.direct, [name |-> key, type |-> r.name]),
                        !.table = Register(acc.table, <<r.name>>, f)]

\* One entry of the action map in Actionize.prototype.reducer.
ClassEntry(acc, rid, namespace, entry) ==
    LET key == entry.key
        f == RawHandler(entry.value)
    IN IF IsCompositeKey(key)
       THEN [acc EXCEPT !.table = Register(acc.table, CompositeTypes(key), f)]
       ELSE LET r == Actionize_createActionType(acc.ticks, acc.types, namespace, key)
            IN IF ~r.ok THEN Fail(acc, r)
               ELSE IF entry.value = PrimitiveValue
               THEN [Fail(acc, [r EXCEPT !.error = "Cannot create property 'type'"])
                        EXCEPT !.hist = Record(acc.hist, namespace, key, r)]
               ELSE [acc EXCEPT
                        !.ticks = r.ticks, !.types = r.types,
                        !.hist = Record(acc.hist, namespace, key, r),
                        !.tags = [acc.tags EXCEPT ![entry.value] = r.name],
                        !.props = SetProp(acc.props, key,
                                          ClassActionCall(rid, key, r.name)),
                        !.direct = Append(acc.direct, [name |-> key, type |-> r.name]),
                        !.table = Register(acc.table, <<r.name>>, f)]

\* A mutant of buildActionType: the namespace is left out of the type.
buildActionType_NoNamespace(namespace, key) ==
    IF Matches(key, {"#", ":", ".", "|"})
    THEN [ok |-> FALSE, error |-> "key cannot contain characters", name |-> <<>>]
    ELSE [ok |-> TRUE, error |-> "", name |-> <<"|", ":">> \o key]

\* Actionize.validateActionKey(key) and Actionize.buildActionType(namespace, key).
buildActionType(namespace, key) ==
    IF Matches(key, {"#", ":", ".", "|"})
    THEN [ok |-> FALSE, error |-> "key cannot contain characters", name |-> <<>>]
    ELSE [ok |-> TRUE, error |-> "", name |-> <<"|">> \o namespace \o <<":">> \o key]

\* A mutant of BuildEntry: an entry with an empty key is not skipped.
BuildEntry_EmptyKey(acc, rid, namespace, entry) ==
    LET key == entry.key
    IN IF ~IsFunction(entry.value) THEN acc
       ELSE IF IsCompositeKey(key)
       THEN [acc EXCEPT !.table =
                Register(acc.table, CompositeTypes(key),
                         BuildActionCall(rid, key, entry.value, NoType))]
       ELSE LET r == buildActionType(namespace, key)
                f == BuildActionCall(rid, key, entry.value, r.name)
            IN IF ~r.ok THEN [acc EXCEPT !.ok = FALSE, !.error = r.error]
               ELSE [acc EXCEPT
                        !.props = SetProp(acc.props, key, f),
                        !.direct = Append(acc.direct, [name |-> key, type |-> r.name]),
                        !.table = Register(acc.table, <<r.name>>, f)]

\* One entry of the action map in ActionizeBuild.prototype.reducer.
BuildEntry(acc, rid, namespace, entry) ==
    LET key == entry.key
    IN IF ~(IsFunction(entry.value) /\ key # <<>>) THEN acc
       ELSE IF IsCompositeKey(key)
       THEN [acc EXCEPT !.table =
                Register(acc.table, CompositeTypes(key),
                         BuildActionCall(rid, key, entry.value, NoType))]
       ELSE LET r == buildActionType(namespace, key)
                f == BuildActionCall(rid, key, entry.value, r.name)
            IN IF ~r.ok THEN [acc EXCEPT !.ok = FALSE, !.error = r.error]
               ELSE [acc EXCEPT
                        !.props = SetProp(acc.props, key, f),
                        !.direct = Append(acc.direct, [name |-> key, type |-> r.name]),
                        !.table = Register(acc.table, <<r.name>>, f)]

Entry(acc, rid, namespace, entry) ==
    CASE api = "index" -> IndexEntry(acc, rid, namespace, entry)
      [] api = "Actionize" -> ClassEntry(acc, rid, namespace, entry)
      [] api = "ActionizeBuild" -> BuildEntry(acc, rid, namespace, entry)

\* Object.keys(actions).forEach(key => ...): a throw ends the build.
RECURSIVE Entries(_, _, _, _)
Entries(acc, rid, namespace, actions) ==
    IF actions = <<>> \/ ~acc.ok THEN acc
    ELSE Entries(Entry(acc, rid, namespace, Head(actions)), rid, namespace,
                 Tail(actions))

\* The whole build; Object.keys(undefined) throws before anything is done.
BuildOutcome(rid, namespace, actions) ==
    IF actions = Undefined
    THEN [StartBuild EXCEPT !.ok = FALSE,
                            !.error = "Cannot convert undefined or null to object"]
    ELSE Entries(StartBuild, rid, namespace, actions.entries)

\* reducer(namespace, initialState, actions), of whichever API is in use.
Build(namespace, initialState, actions) ==
    /\ nBuilds < MaxBuilds
    /\ nBuilds' = nBuilds + 1
    /\ LET rid == Len(reducers) + 1
           acc == BuildOutcome(rid, namespace, actions)
       IN /\ actionTypeTicks' = acc.ticks
          /\ actionTypes' = acc.types
          /\ returned' = acc.hist
          /\ handlerType' = acc.tags
          /\ reducers' =
                IF acc.ok
                THEN Append(reducers,
                        [namespace |-> namespace, initialState |-> initialState,
                         actions |-> actions, actionHandlers |-> acc.table,
                         props |-> acc.props, direct |-> acc.direct])
                ELSE reducers
          /\ last' = [op |-> "reducer", namespace |-> namespace, actions |-> actions,
                      ok |-> acc.ok, error |-> acc.error,
                      reducer |-> IF acc.ok THEN rid ELSE 0]
    /\ UNCHANGED <<api, nCalls, composed, nComposed,
                   actionize, invoked>>

(***************************************************************************)
(* Dispatch.                                                               *)
(***************************************************************************)
Returns(value, calls) == [ok |-> TRUE, error |-> "", value |-> value, calls |-> calls]
Throws(message) == [ok |-> FALSE, error |-> message, value |-> Undefined, calls |-> <<>>]

\* handlers.forEach(handler => state = handler(state, action)): the final
\* state and the calls made, in order.
RECURSIVE RunHandlers(_, _, _, _)
RunHandlers(handlers, state, action, calls) ==
    IF handlers = <<>> THEN Returns(state, calls)
    ELSE LET h == HandlerOf(Head(handlers))
         IN IF ~IsFunction(h) THEN Throws("handler is not a function")
            ELSE RunHandlers(Tail(handlers), Apply(h, state, action), action,
                        Append(calls, [handler |-> h, state |-> state,
                                       action |-> action]))

\* actionType && actionHandlers[actionType], then the forEach.  The table is
\* a plain object, so a name inherited from Object.prototype is found too,
\* and what is found there has no forEach.
RunTable(table, state, action) ==
    LET actionType == IF action = Undefined THEN NoType ELSE action.type
    IN IF ~Truthy(actionType) THEN Returns(state, <<>>)
       ELSE IF Slot(table, actionType) # {}
       THEN LET i == CHOOSE j \in Slot(table, actionType) : TRUE
            IN RunHandlers(table[i].handlers, state, action, <<>>)
       ELSE IF actionType \in ObjectPrototypeKeys
       THEN Throws("handlers.forEach is not a function")
       ELSE Returns(state, <<>>)

\* reducerFunc of ActionizeBuild.prototype.reducer.
BuildReducerFunc(R, state, action) ==
    RunTable(R.actionHandlers,
             IF state = Undefined THEN R.initialState ELSE state, action)

\* reducerFunc of reducer(...) in index.js.
IndexReducerFunc(R, state, action) ==
    RunTable(R.actionHandlers,
             IF state = Undefined THEN R.initialState ELSE state, action)

\* reducerFunc of Actionize.prototype.reducer.
ClassReducerFunc(R, state, action) ==
    RunTable(R.actionHandlers,
             IF state = Undefined THEN R.initialState ELSE state, action)

\* R(state, action)
ReducerFunc(R, state, action) ==
    CASE api = "index" -> IndexReducerFunc(R, state, action)
      [] api = "Actionize" -> ClassReducerFunc(R, state, action)
      [] api = "ActionizeBuild" -> BuildReducerFunc(R, state, action)

\* actionCall of ActionizeBuild.prototype.reducer: the raw handler, called
\* with the arguments as given.
BuildActionCallFunc(f, state, action) ==
    Returns(Apply(f.handler, state, action),
            <<[handler |-> f.handler, state |-> state, action |-> action]>>)

\* actionCall of Actionize.prototype.reducer: a dispatch to the reducer of a
\* copy of the argument that carries the action's type.
ClassActionCallFunc(f, state, action) ==
    ClassReducerFunc(reducers[f.reducer], state, SpreadWithType(action, f.type))

\* R[key](state, action): in index.js the property is the raw handler.
ActionFunc(f, state, action) ==
    CASE f.fn = "handler" ->
            Returns(Apply(f.id, state, action),
                    <<[handler |-> f.id, state |-> state, action |-> action]>>)
      [] f.fn = "actionCall" -> BuildActionCallFunc(f, state, action)
      [] f.fn = "dispatchCall" -> ClassActionCallFunc(f, state, action)

(***************************************************************************)
(* combine and nest.  A reducer is referred to by the place it is kept in: *)
(* a built reducer in reducers, a combined or nested one in composed.  Two  *)
(* references are equal exactly when they are the same function object.    *)
(***************************************************************************)
LeafRef(id) == [ref |-> "reducer", id |-> id]
ComposedRef(id) == [ref |-> "composed", id |-> id]

\* A state object the caller made that holds the given values under the
\* given keys: a plain object, or an Immutable map.
PlainState(slots) == [js |-> "plain", slots |-> slots]
ImmutableState(slots) == [js |-> "imap", slots |-> slots]

\* What a throwing expression leaves in place of a value.
Thrown(message) == [js |-> "thrown", message |-> message]

\* A mutant of Lookup: the value of the first key, whatever the key asked.
Lookup_FirstKey(slots, key) ==
    IF slots # <<>> THEN slots[1].value ELSE Undefined

\* obj[key] of an object whose own keys, in order, are those of slots.
Lookup(slots, key) ==
    IF Slot(slots, key) # {}
    THEN slots[CHOOSE i \in Slot(slots, key) : TRUE].value
    ELSE Undefined

\* What is stored under a key of an object that a handler returned.  What a
\* handler computes is left open: the results of the first handler hold a
\* value under every key, the results of the others hold none.
ResultSlot(state, key) ==
    IF state.of = HandlerAt(1)
    THEN [js |-> "slot", of |-> state, key |-> key]
    ELSE Undefined

\* null, as a state: a falsy value that is not undefined.
Null == [js |-> "null"]
Falsy(state) == state \in {Undefined, Null}

\* state[key] of an object.  Object.assign({}, base, values) holds the
\* values, and what base holds under the other keys.
RECURSIVE Property(_, _)
Property(state, key) ==
    CASE state.js \in {"plain", "values"} -> Lookup(state.slots, key)
      [] state.js = "assigned" ->
            IF Slot(state.slots, key) # {} THEN Lookup(state.slots, key)
            ELSE Property(state.base, key)
      [] state.js = "result" -> ResultSlot(state, key)
      [] OTHER -> Undefined

\* (state, key) => state && state[key]
PlainPick(state, key) == IF Falsy(state) THEN state ELSE Property(state, key)

\* state.get(key) of an Immutable map, of the result of a structure
\* function or of a merge; anything else has no get.
RECURSIVE Get(_, _)
Get(state, key) ==
    CASE state.js \in {"imap", "structure"} -> Lookup(state.slots, key)
      [] state.js = "merged" ->
            IF Slot(state.slots, key) # {} THEN Lookup(state.slots, key)
            ELSE Get(state.base, key)
      [] state.js = "result" -> ResultSlot(state, key)
      [] OTHER -> Thrown("state.get is not a function")

\* (state, key) => state && state.get(key)
ImmutablePick(state, key) == IF Falsy(state) THEN state ELSE Get(state, key)

\* The callbacks the caller writes out in the combinePlain and nestPlain
\* tests: (state, key) => state && state[key], (state, values) => values
\* and (state, values) => Object.assign({}, state, values).
DocumentedPick(state, key) == IF Falsy(state) THEN state ELSE Property(state, key)
DocumentedCombineJoin(state, values) == [js |-> "values", slots |-> values]
DocumentedNestJoin(state, values) ==
    [js |-> "assigned", base |-> state, slots |-> values]

\* pick(state, key).  A pick function of the caller's is left open: what it
\* returns is a value that records its arguments.
Pick(policy, state, key) ==
    CASE policy.pick = "plain" -> PlainPick(state, key)
      [] policy.pick = "get" -> ImmutablePick(state, key)
      [] policy.pick = "documented" -> DocumentedPick(state, key)
      [] policy.pick = "custom" -> [js |-> "picked", state |-> state, key |-> key]

\* join(state, values).  Every join of the program makes a new object; a
\* join function of the caller's is left open in the same way as a pick.
JoinValues(policy, state, values) ==
    CASE policy.join = "values" -> [js |-> "values", slots |-> values]
      [] policy.join = "assign" ->
            [js |-> "assigned", base |-> state, slots |-> values]
      [] policy.join = "structure" ->
            [js |-> "structure", by |-> policy.structure, slots |-> values]
      [] policy.join = "merge" ->
            IF Falsy(state) THEN state
            ELSE IF state.js \in {"imap", "structure", "merged", "result"}
            THEN [js |-> "merged", base |-> state, slots |-> values]
            ELSE Thrown("state.merge is not a function")
      [] policy.join = "documentedCombine" -> DocumentedCombineJoin(state, values)
      [] policy.join = "documentedNest" -> DocumentedNestJoin(state, values)
      [] policy.join = "custom" ->
            [js |-> "joined", state |-> state, values |-> values]

\* The picks and joins of combinePlain, combineImmutable, nestPlain and
\* nestImmutable, and those the caller hands to combine and nest.
CustomPolicy == [pick |-> "custom", join |-> "custom"]
DocumentedCombinePolicy == [pick |-> "documented", join |-> "documentedCombine"]
DocumentedNestPolicy == [pick |-> "documented", join |-> "documentedNest"]
\* A mutant of CombinePlainPolicy: the values are assigned to a copy of the
\* state.
CombinePlainPolicy_Assign == [pick |-> "plain", join |-> "assign"]
CombinePlainPolicy == [pick |-> "plain", join |-> "values"]
CombineImmutablePolicy(structure) ==
    [pick |-> "get", join |-> "structure", structure |-> structure]
NestPlainPolicy == [pick |-> "plain", join |-> "assign"]
NestImmutablePolicy == [pick |-> "get", join |-> "merge"]

\* The outcome of a call of a combined or nested reducer: the value it
\* returns and what happened during the call, in order.
Done(value, trace) == [ok |-> TRUE, error |-> "", value |-> value, trace |-> trace]
Failed(message, trace) ==
    [ok |-> FALSE, error |-> message, value |-> Undefined, trace |-> trace]

HandlerEvents(calls) ==
    [i \in 1..Len(calls) |->
        [ev |-> "handler", handler |-> calls[i].handler, state |-> calls[i].state,
         action |-> calls[i].action]]

RECURSIVE Reduce(_, _, _)
RECURSIVE CombineChildren(_, _, _, _, _)

\* The end of one round of the forEach of combine: the child threw, or
\* returned r.value for the sub-state it was given.
AfterChild(acc, key, subState, picked, r) ==
    IF ~r.ok
    THEN [acc EXCEPT !.ok = FALSE, !.error = r.error, !.trace = picked \o r.trace]
    ELSE [acc EXCEPT !.updated = acc.updated \/ subState # r.value,
                     !.values = Append(acc.values, [name |-> key, value |-> r.value]),
                     !.trace = picked \o r.trace]

\* A mutant of CallChild: a child that has a sibling before it is called
\* with what that sibling returned.
CallChild_OnSibling(child, state, action, acc, subState) ==
    IF subState.js = "thrown"
    THEN [acc EXCEPT !.ok = FALSE, !.error = subState.message]
    ELSE AfterChild(acc, child.name, subState,
                    Append(acc.trace, [ev |-> "pick", state |-> state,
                                       key |-> child.name, value |-> subState]),
                    Reduce(child.value,
                           IF acc.values = <<>> THEN subState
                           ELSE acc.values[Len(acc.values)].value,
                           action))

\* const newState = reducer(subState, action), unless pick threw.
CallChild(child, state, action, acc, subState) ==
    IF subState.js = "thrown"
    THEN [acc EXCEPT !.ok = FALSE, !.error = subState.message]
    ELSE AfterChild(acc, child.name, subState,
                    Append(acc.trace, [ev |-> "pick", state |-> state,
                                       key |-> child.name, value |-> subState]),
                    Reduce(child.value, subState, action))

\* reducerKeys.forEach(key => { ... }) of combine: each child is called with
\* its sub-state of the state given, and its result is kept under its key.
CombineChildren(children, policy, state, action, acc) ==
    IF children = <<>> \/ ~acc.ok THEN acc
    ELSE CombineChildren(Tail(children), policy, state, action,
            CallChild(Head(children), state, action, acc,
                      Pick(policy, state, Head(children).name)))

\* return state, of the state given or of what join made of it.
Joined(state, acc, joined) ==
    IF joined.js = "thrown" THEN Failed(joined.message, acc.trace)
    ELSE Done(joined, Append(acc.trace, [ev |-> "join", state |-> state,
                                         values |-> acc.values, value |-> joined]))

\* A mutant of AfterChildren: join is called whether or not a child changed
\* its value.
AfterChildren_AlwaysJoin(policy, state, acc) ==
    IF ~acc.ok THEN Failed(acc.error, acc.trace)
    ELSE Joined(state, acc, JoinValues(policy, state, acc.values))

\* if (updated) { state = join(state, values); } return state;
AfterChildren(policy, state, acc) ==
    IF ~acc.ok THEN Failed(acc.error, acc.trace)
    ELSE IF ~acc.updated THEN Done(state, acc.trace)
    ELSE Joined(state, acc, JoinValues(policy, state, acc.values))

\* The function combine returns: the children, then join if one of them
\* returned something other than its sub-state.
CombineFunc(children, policy, state, action) ==
    AfterChildren(policy, state,
        CombineChildren(children, policy, state, action,
            [ok |-> TRUE, error |-> "", updated |-> FALSE,
             values |-> <<>>, trace |-> <<>>]))

\* What happened in the parent, then what happened in the children.
After(p, n) == [n EXCEPT !.trace = p.trace \o n.trace]

\* A mutant of NestedOn: what the children leave is copied to a new object.
NestedOn_Copy(C, nestedState, action, p) ==
    IF ~p.ok THEN p
    ELSE After(p, [CombineFunc(C.children, C.policy, nestedState, action)
                      EXCEPT !.value = [js |-> "assigned", base |-> @, slots |-> <<>>]])

\* return nestedReducer(parentState, action), unless the parent threw.
NestedOn(C, nestedState, action, p) ==
    IF ~p.ok THEN p
    ELSE After(p, CombineFunc(C.children, C.policy, nestedState, action))

\* A mutant of NestFunc: the children run on the state the caller gave.
NestFunc_IncomingState(C, state, action) ==
    NestedOn(C, state, action, Reduce(C.parent, state, action))

\* The function nest returns: the parent, then the combination of the
\* children on what the parent returned.
NestFunc(C, state, action) ==
    LET p == Reduce(C.parent, state, action)
    IN NestedOn(C, p.value, action, p)

\* A call of a built reducer, as a call of a reducer of a composition.
LeafFunc(l) ==
    IF l.ok THEN Done(l.value, HandlerEvents(l.calls)) ELSE Failed(l.error, <<>>)

\* The trace of a call: what the reducer did, between its call and, when it
\* returned, its return.
Bracket(ref, state, r) ==
    LET call == [ev |-> "call", ref |-> ref, state |-> state]
    IN IF r.ok
       THEN [r EXCEPT !.trace = <<call>> \o r.trace \o
                         <<[ev |-> "return", ref |-> ref, value |-> r.value]>>]
       ELSE [r EXCEPT !.trace = <<call>> \o r.trace]

\* ref(state, action): a call of the reducer a reference stands for.
Reduce(ref, state, action) ==
    Bracket(ref, state,
        IF ref.ref = "reducer"
        THEN LeafFunc(ReducerFunc(reducers[ref.id], state, action))
        ELSE IF composed[ref.id].kind = "nest"
        THEN NestFunc(composed[ref.id], state, action)
        ELSE CombineFunc(composed[ref.id].children, composed[ref.id].policy,
                         state, action))

\* The reducer a composition has no parent for.
NoRef == [ref |-> "none", id |-> 0]

\* Properties a caller may have put on a parent reducer that are no
\* actions: a number, and a function that has no type.
NoCopy1 == <<"n", "o", "C", "o", "p", "y", "1">>
NoCopy2 == <<"n", "o", "C", "o", "p", "y", "2">>
Extras ==
    <<[name |-> NoCopy1, value |-> [js |-> "number"]],
      [name |-> NoCopy2, value |-> [fn |-> "function", type |-> NoType]]>>

\* Object.keys(ref), with the values: the properties of a reducer.
PropsOf(ref) ==
    IF ref.ref = "reducer" THEN reducers[ref.id].props ELSE composed[ref.id].props

\* entries.forEach(e => reducerFunc[e.name] = e.value)
RECURSIVE AssignAll(_, _)
AssignAll(props, entries) ==
    IF entries = <<>> THEN props
    ELSE AssignAll(SetProp(props, Head(entries).name, Head(entries).value),
                   Tail(entries))

\* typeof action === 'function' && action.type, of a property of a parent.
\* A reducer is a function that has no type.
IsTypedAction(p) ==
    /\ "fn" \in DOMAIN p.value
    /\ Truthy(TypeTag(p.value, handlerType))

\* A mutant of CombineProps: the combined reducer exposes nothing.
CombineProps_None(children) == <<>>

\* The properties of what combine returns: in ActionizeBuild each child
\* under its key; the functions of index.js have none.
CombineProps(children) ==
    IF api = "ActionizeBuild" THEN AssignAll(<<>>, children) ELSE <<>>

\* A mutant of NestProps: every property of the parent is copied.
NestProps_All(parentProps, children) ==
    IF api = "ActionizeBuild"
    THEN AssignAll(CombineProps(children), parentProps)
    ELSE <<>>

\* The properties of what nest returns: in ActionizeBuild those of the
\* nested combination, then the typed functions of the parent.
NestProps(parentProps, children) ==
    IF api = "ActionizeBuild"
    THEN AssignAll(CombineProps(children), SelectSeq(parentProps, IsTypedAction))
    ELSE <<>>

(***************************************************************************)
(* handle(...items): the composite key of a list of items.  An item is a   *)
(* string or a function; a function has a .type (NoType when it has none)  *)
(* and own properties.                                                     *)
(***************************************************************************)
StringItem(str) == [kind |-> "string", value |-> str]
FunctionItem(type, props) == [kind |-> "function", type |-> type, props |-> props]

\* strs.join(sep)
RECURSIVE Join(_, _)
Join(strs, sep) ==
    IF strs = <<>> THEN <<>>
    ELSE IF Len(strs) = 1 THEN strs[1]
    ELSE strs[1] \o sep \o Join(Tail(strs), sep)

\* A value that is neither a string nor a function (the 123 of the 'ignores
\* non-functions' test).
PlainItem == [kind |-> "number"]

\* A reducer given as an item: its named properties, and, where the builder
\* sets _actionizeHandlers on the reducer, its dispatch table.
ReducerItem(R, tags) ==
    LET props == [i \in 1..Len(R.props) |->
                     [kind |-> "function", type |-> TypeTag(R.props[i].value, tags)]]
    IN IF api = "ActionizeBuild"
       THEN [kind |-> "function", type |-> NoType, props |-> props]
       ELSE [kind |-> "function", type |-> NoType, props |-> props,
             handlers |-> R.actionHandlers]

\* What items.map(item => ...) makes of one item; NoType stands for undefined.
HandleItem(item) ==
    IF item.kind = "string" THEN item.value
    ELSE IF item.kind # "function" THEN NoType
    ELSE IF item.type # NoType THEN item.type
    ELSE LET handlers == SelectSeq(item.props,
                             LAMBDA f : f.kind = "function" /\ Truthy(f.type))
             handlerTypes == [i \in 1..Len(handlers) |-> handlers[i].type]
         IN IF Len(handlerTypes) > 0 THEN Join(handlerTypes, <<>>) ELSE NoType

\* A mutant of handle: the types are joined with join()'s default separator.
handle_JoinDefault(items) ==
    Join(SelectSeq([i \in 1..Len(items) |-> HandleItem(items[i])], Truthy), <<",">>)

\* ActionizeBuild.prototype.handle
handle(items) ==
    Join(SelectSeq([i \in 1..Len(items) |-> HandleItem(items[i])], Truthy), <<>>)

\* What the items.map of handle(...items) in index.js, and of
\* Actionize.prototype.handle, makes of one item.
IndexHandleItem(item) ==
    IF item.kind = "string" THEN item.value
    ELSE IF "type" \in DOMAIN item /\ Truthy(item.type) THEN item.type
    ELSE IF "handlers" \in DOMAIN item
    THEN Join([i \in 1..Len(item.handlers) |-> item.handlers[i].name], <<>>)
    ELSE NoType

\* handle(...items) of index.js
IndexHandle(items) ==
    Join(SelectSeq([i \in 1..Len(items) |-> IndexHandleItem(items[i])], Truthy), <<>>)

\* Actionize.prototype.handle
Actionize_handle(items) ==
    Join(SelectSeq([i \in 1..Len(items) |-> IndexHandleItem(items[i])], Truthy), <<>>)

\* handle(...items), of whichever API is in use.
HandleFunc(items) ==
    CASE api = "index" -> IndexHandle(items)
      [] api = "Actionize" -> Actionize_handle(items)
      [] api = "ActionizeBuild" -> handle(items)

(***************************************************************************)
(* The inputs of the builder and of dispatch.                              *)
(***************************************************************************)
Namespaces == {<<"a">>, <<"a", "a">>}
DirectKeys == {<<"a">>}
InitialStates == {Object("init")}
States == {Undefined, Object("given")}

\* A type string written by hand, and one that nothing registers.
LiteralType == <<"|", "a", ":", "a">>
UnregisteredType == <<"|", ".", ":", ".">>

\* The type tags of the named actions of the reducers built so far.
ExposedTypes ==
    UNION {{TypeTag(reducers[r].props[i].value, handlerType) :
                i \in 1..Len(reducers[r].props)} : r \in 1..Len(reducers)}

\* The composite keys a build may use: one of the types known to the
\* program, two different ones concatenated, or handle(R) of a reducer built
\* before.
CompositeKeys ==
    LET known == ExposedTypes \cup {LiteralType}
    IN known \cup {p[1] \o p[2] : p \in {q \in known \X known : q[1] # q[2]}}
             \cup ({HandleFunc(<<ReducerItem(reducers[r], handlerType)>>) :
                        r \in 1..Len(reducers)} \ {<<>>})

\* An action map: an object whose own keys, in order, are those of entries.
ActionMap(entries) == [js |-> "object", entries |-> entries]

\* The action maps: up to MaxKeys distinct keys, in key order; the value of
\* the i-th key is the program's i-th handler function.
ActionMaps ==
    LET keys == DirectKeys \cup CompositeKeys
    IN {ActionMap([i \in 1..Len(ks) |-> [key |-> ks[i], value |-> HandlerAt(i)]]) :
            ks \in {m \in UNION {[1..n -> keys] : n \in 0..MaxKeys} :
                        \A i, j \in 1..Len(m) : i # j => m[i] # m[j]}}

\* The types registered in a reducer's dispatch table.
RegisteredTypes(R) == {R.actionHandlers[i].name : i \in 1..Len(R.actionHandlers)}

\* The messages dispatched to reducer R.
Messages(R) ==
    {Undefined} \cup
    {[type |-> t, payload |-> "p"] :
        t \in {NoType, UnregisteredType, <<"c","o","n","s","t","r","u","c","t","o","r">>}
               \cup RegisteredTypes(R)}

\* The second argument of a direct call of a named action.
Payloads ==
    {Undefined, [type |-> NoType, payload |-> "p"],
     [type |-> UnregisteredType, payload |-> "p"]}

(***************************************************************************)
(* Actions.                                                                *)
(***************************************************************************)
\* One call of an allocator, with outcome r.
AllocatorCall(namespace, key, r) ==
    /\ nCalls + nBuilds < MaxCalls
    /\ nCalls' = nCalls + 1
    /\ actionTypeTicks' = r.ticks
    /\ actionTypes' = r.types
    /\ returned' = Record(returned, namespace, key, r)
    /\ last' = [op |-> "createActionType", namespace |-> namespace, key |-> key,
                ok |-> r.ok, error |-> r.error, name |-> r.name]
    /\ UNCHANGED <<api, handlerType, reducers, nBuilds, composed, nComposed,
                   actionize, invoked>>

\* A call of the module-level createActionType of index.js.
CreateActionType ==
    /\ api = "index"
    /\ \E namespace \in NamespaceInputs, key \in KeyInputs :
          AllocatorCall(namespace, key,
              createActionType(actionTypeTicks, actionTypes, namespace, key))

\* A call of _createActionType on the Actionize instance.
InstanceCreateActionType ==
    /\ api = "Actionize"
    /\ \E namespace \in NamespaceInputs, key \in KeyInputs :
          AllocatorCall(namespace, key,
              Actionize_createActionType(actionTypeTicks, actionTypes, namespace, key))

\* A build from a well-formed namespace and action map, or from no map.
BuildReducer ==
    \E namespace \in Namespaces, initialState \in InitialStates,
       actions \in ActionMaps \cup {Undefined} :
        Build(namespace, initialState, actions)

\* A build from any namespace and from keys that may be malformed.
UncheckedNamespaces == {<<"a">>, <<"|">>, <<":">>, <<"#">>}
UncheckedKeys == {<<>>, <<"a">>, <<".">>, <<"a", "|">>}

\* The maps of one key, and of two different keys in either order.
UncheckedMaps ==
    {ActionMap(<<[key |-> k, value |-> HandlerAt(1)]>>) : k \in UncheckedKeys}
    \cup {ActionMap(<<[key |-> p[1], value |-> HandlerAt(1)],
                      [key |-> p[2], value |-> HandlerAt(2)]>>) :
             p \in {q \in UncheckedKeys \X UncheckedKeys : q[1] # q[2]}}

BuildUnchecked ==
    /\ nCalls + nBuilds < MaxUnchecked
    /\ \E namespace \in UncheckedNamespaces, initialState \in InitialStates,
       actions \in UncheckedMaps :
        Build(namespace, initialState, actions)

\* R(state, action)
Dispatch ==
    \E rid \in 1..Len(reducers) :
      \E state \in States, action \in Messages(reducers[rid]) :
        LET r == ReducerFunc(reducers[rid], state, action)
        IN /\ last' = [op |-> "dispatch", reducer |-> rid, state |-> state,
                       action |-> action, ok |-> r.ok, error |-> r.error,
                       value |-> r.value, calls |-> r.calls]
           /\ UNCHANGED <<api, actionTypeTicks, actionTypes, handlerType, reducers,
                          returned, nCalls, nBuilds, composed, nComposed,
                          actionize, invoked>>

\* R[key](state, action)
CallAction ==
    \E rid \in 1..Len(reducers) :
      \E i \in 1..Len(reducers[rid].props), state \in States, action \in Payloads :
        LET r == ActionFunc(reducers[rid].props[i].value, state, action)
        IN /\ last' = [op |-> "call", reducer |-> rid,
                       key |-> reducers[rid].props[i].name, state |-> state,
                       action |-> action, ok |-> r.ok, error |-> r.error,
                       value |-> r.value, calls |-> r.calls]
           /\ UNCHANGED <<api, actionTypeTicks, actionTypes, handlerType, reducers,
                          returned, nCalls, nBuilds, composed, nComposed,
                          actionize, invoked>>

\* The types the allocator returns for a pair allocated once and twice.
IssuedTypes ==
    UNION {LET first == createActionType(<<>>, {}, pair[1], pair[2])
               second == createActionType(first.ticks, first.types, pair[1], pair[2])
           IN {first.name, second.name} :
           pair \in {<<<<"a">>, <<"a">>>>, <<<<"a", ".">>, <<"a">>>>}}

\* The items handle is called with: issued types as strings and as actions
\* carrying them, a function that has no type, a string that is no type, a
\* number, and reducers whose properties are untyped or typed.
Items ==
    {StringItem(t) : t \in IssuedTypes}
    \cup {FunctionItem(t, <<>>) : t \in IssuedTypes}
    \cup {FunctionItem(NoType, <<>>), StringItem(<<"a">>)}
    \cup {PlainItem,
          FunctionItem(NoType, <<FunctionItem(NoType, <<>>), PlainItem>>),
          FunctionItem(NoType, <<FunctionItem(LiteralType, <<>>), PlainItem,
                                 FunctionItem(UnregisteredType, <<>>)>>)}

ItemLists == UNION {[1..n -> Items] : n \in 0..MaxItems}

\* build.handle(...items)
Handle ==
    /\ last.op = "items"
    /\ last' = [op |-> "handle", items |-> last.items, key |-> handle(last.items)]
    /\ UNCHANGED <<api, actionTypeTicks, actionTypes, handlerType, reducers,
                   returned, nCalls, nBuilds, composed, nComposed,
                   actionize, invoked>>

\* The builder's reading of the key handle returned.
SplitKey ==
    /\ last.op = "handle"
    /\ last' = [op |-> "split", items |-> last.items, key |-> last.key,
                types |-> CompositeTypes(last.key)]
    /\ UNCHANGED <<api, actionTypeTicks, actionTypes, handlerType, reducers,
                   returned, nCalls, nBuilds, composed, nComposed,
                   actionize, invoked>>

\* build.reducer(null, { a: ..., [key]: ... }) with the key handle returned;
\* a key equal to 'a' names the same property.
BuildWithKey ==
    /\ last.op = "handle"
    /\ Build(<<"a">>, Object("init"),
             ActionMap(IF last.key = <<"a">>
                       THEN <<[key |-> <<"a">>, value |-> HandlerAt(2)]>>
                       ELSE <<[key |-> <<"a">>, value |-> HandlerAt(1)],
                              [key |-> last.key, value |-> HandlerAt(2)]>>))

\* The action maps of up to two entries whose values are the i-th handler
\* function, a primitive or an object, under a direct or a composite key.
MixedKeys == {<<"a">>, LiteralType}
MixedMaps ==
    {ActionMap(<<>>)}
    \cup {ActionMap(<<[key |-> k, value |-> v]>>) :
            k \in MixedKeys, v \in {HandlerAt(1), PrimitiveValue, ObjectValue}}
    \cup {ActionMap(<<[key |-> p[1], value |-> p[3]], [key |-> p[2], value |-> p[4]]>>) :
            p \in {q \in MixedKeys \X MixedKeys
                            \X {HandlerAt(1), PrimitiveValue, ObjectValue}
                            \X {HandlerAt(2), PrimitiveValue, ObjectValue} :
                        q[1] # q[2]}}

\* A build from a map that may hold values that are not functions.
BuildMixed ==
    \E actions \in MixedMaps : Build(<<"a">>, Object("init"), actions)

(***************************************************************************)
(* Specifications.                                                         *)

(***************************************************************************)
(* Compositions: reducers are built, combined and nested, and the result   *)
(* is called.  The module-level functions of index.js and the methods of   *)
(* ActionizeBuild are the two implementations.                             *)
(***************************************************************************)
\* A child reducer, or a parent: namespace 'a' with one action 'a' and the
\* first handler, or namespace 'aa' with one action 'c' and the second.
LeafMaps ==
    [n \in Namespaces |->
        IF n = <<"a">>
        THEN ActionMap(<<[key |-> <<"a">>, value |-> HandlerAt(1)]>>)
        ELSE ActionMap(<<[key |-> <<"c">>, value |-> HandlerAt(2)]>>)]

LeafInitial(namespace) ==
    IF namespace = <<"a">> THEN Object("init") ELSE Object("init2")

BuildLeaf ==
    /\ nBuilds + nComposed < MaxParts
    /\ \E namespace \in Namespaces :
          Build(namespace, LeafInitial(namespace), LeafMaps[namespace])

\* The reducers there are.
Refs ==
    {LeafRef(i) : i \in 1..Len(reducers)} \cup {ComposedRef(i) : i \in 1..Len(composed)}

\* The keys children are combined under; the first is also the key of an
\* action of a built reducer.
ChildKeys == <<<<"a">>, <<"b">>>>

\* The reducer maps: one child, or two different ones.
ChildMaps ==
    {<<[name |-> ChildKeys[1], value |-> r]>> : r \in Refs}
    \cup {<<[name |-> ChildKeys[1], value |-> p[1]],
            [name |-> ChildKeys[2], value |-> p[2]]>> :
             p \in {q \in Refs \X Refs : q[1] # q[2]}}

\* The arguments of a call that takes no structure.
NoArgs == [structure |-> "none"]

\* A call of combine or nest that returns the reducer C.
Compose(op, args, C) ==
    /\ nComposed < MaxComposed
    /\ nBuilds + nComposed < MaxParts
    /\ nComposed' = nComposed + 1
    /\ composed' = Append(composed, C)
    /\ last' = [op |-> op, args |-> args, ok |-> TRUE, error |-> "",
                composed |-> Len(composed) + 1]
    /\ UNCHANGED <<api, actionTypeTicks, actionTypes, handlerType, reducers,
                   returned, nCalls, nBuilds,
                   actionize, invoked>>

\* A call of combine or nest that throws.
ComposeFails(op, args, message) ==
    /\ nComposed < MaxComposed
    /\ nBuilds + nComposed < MaxParts
    /\ nComposed' = nComposed + 1
    /\ last' = [op |-> op, args |-> args, ok |-> FALSE, error |-> message,
                composed |-> 0]
    /\ UNCHANGED <<api, actionTypeTicks, actionTypes, handlerType, reducers,
                   returned, nCalls, nBuilds, composed,
                   actionize, invoked>>

\* combine(reducers, pick, join)
combine(op, args, children, policy) ==
    Compose(op, args, [kind |-> "combine", op |-> op, args |-> args,
                       parent |-> NoRef, children |-> children,
                       policy |-> policy, props |-> CombineProps(children)])

\* combine(reducers, pick, join) with a pick and a join of the caller's.
Combine == \E children \in ChildMaps : combine("combine", NoArgs, children, CustomPolicy)

\* combinePlain(reducers), combine.plain(reducers)
CombinePlain ==
    \E children \in ChildMaps : combine("combinePlain", NoArgs, children, CombinePlainPolicy)

\* The structure functions: the one a caller passes, and Immutable.Map of
\* the configured Immutable (in index.js, combine.immutable.defaultStructure).
GivenStructure == [fn |-> "structure", id |-> "given"]
DefaultStructure == [fn |-> "structure", id |-> "Immutable.Map"]
NoStructure == [fn |-> "none", id |-> "undefined"]

\* A mutant of combineImmutable: without a structure the values are joined
\* as a plain object.
combineImmutable_PlainFallback(children, structure, configured) ==
    LET chosen == IF structure # NoStructure THEN structure ELSE configured
        args == [structure |-> structure, configured |-> configured]
    IN IF chosen = NoStructure
       THEN combine("combineImmutable", args, children, CombinePlainPolicy)
       ELSE combine("combineImmutable", args, children,
                    CombineImmutablePolicy(chosen))

\* combineImmutable(reducers, structure), combine.immutable(reducers,
\* structure): configured is the Immutable.Map of the builder's options, or
\* the default structure of index.js, at the time of the call.
combineImmutable(children, structure, configured) ==
    LET chosen == IF structure # NoStructure THEN structure ELSE configured
        args == [structure |-> structure, configured |-> configured]
    IN IF chosen = NoStructure
       THEN ComposeFails("combineImmutable", args, "requires an Immutable structure")
       ELSE combine("combineImmutable", args, children,
                    CombineImmutablePolicy(chosen))

CombineImmutable ==
    \E children \in ChildMaps, structure \in {NoStructure, GivenStructure},
       configured \in {NoStructure, DefaultStructure} :
        combineImmutable(children, structure, configured)

\* nest(parent, reducers, pick, join); extras are the properties the caller
\* put on the parent that are no actions.
nest(op, parent, extras, children, policy) ==
    Compose(op, NoArgs,
            [kind |-> "nest", op |-> op, args |-> NoArgs,
             parent |-> parent, children |-> children,
             policy |-> policy, extras |-> extras,
             props |-> NestProps(PropsOf(parent) \o extras, children)])

\* nest(parent, reducers, pick, join) with a pick and a join of the caller's.
Nest ==
    \E parent \in Refs, children \in ChildMaps, extras \in {<<>>, Extras} :
        nest("nest", parent, extras, children, CustomPolicy)

\* nestPlain(parent, reducers), nest.plain(parent, reducers)
NestPlain ==
    \E parent \in Refs, children \in ChildMaps :
        nest("nestPlain", parent, <<>>, children, NestPlainPolicy)

\* nestImmutable(parent, reducers), nest.immutable(parent, reducers)
NestImmutable ==
    \E parent \in Refs, children \in ChildMaps :
        nest("nestImmutable", parent, <<>>, children, NestImmutablePolicy)

\* The states a combined or nested reducer is called with: none, null, an
\* object that holds no child's key, and a plain object and an Immutable map
\* that hold a value under every child's key.
SlotStates ==
    <<[name |-> ChildKeys[1], value |-> Object("sa")],
      [name |-> ChildKeys[2], value |-> Object("sb")]>>
ComposedStates ==
    {Undefined, Null, Object("given"), PlainState(SlotStates),
     ImmutableState(SlotStates)}

\* The messages it is called with: none, every type a built reducer
\* handles, a type nothing handles and the name of a member of
\* Object.prototype.
ComposedMessages ==
    {Undefined} \cup
    {[type |-> t, payload |-> "p"] :
        t \in {UnregisteredType, <<"c","o","n","s","t","r","u","c","t","o","r">>}
               \cup UNION {RegisteredTypes(reducers[r]) : r \in 1..Len(reducers)}}

\* C(state, action) of the combined or nested reducer C made last.  A call
\* changes nothing the program keeps, so a call of a reducer at any later
\* time returns what a call right after its making returns.
DispatchComposed ==
    /\ last.op \notin {"none", "reducer", "reduce", "again"}
    /\ composed # <<>>
    /\ \E state \in ComposedStates, action \in ComposedMessages :
        LET cid == Len(composed)
            r == Reduce(ComposedRef(cid), state, action)
        IN /\ last' = [op |-> "reduce", composed |-> cid, state |-> state,
                       action |-> action, ok |-> r.ok, error |-> r.error,
                       value |-> r.value, trace |-> r.trace]
           /\ UNCHANGED <<api, actionTypeTicks, actionTypes, handlerType, reducers,
                          returned, nCalls, nBuilds, composed, nComposed,
                          actionize, invoked>>


\* C() and then C(result, action): a reducer called with no arguments is
\* called again with the state it returned.
CallAgain ==
    /\ last.op = "reduce"
    /\ last.ok
    /\ last.state = Undefined
    /\ last.action = Undefined
    /\ \E action \in ComposedMessages :
        LET r == Reduce(ComposedRef(last.composed), last.value, action)
        IN /\ last' = [op |-> "again", composed |-> last.composed,
                       state |-> last.value, action |-> action, ok |-> r.ok,
                       error |-> r.error, value |-> r.value, trace |-> r.trace]
           /\ UNCHANGED <<api, actionTypeTicks, actionTypes, handlerType, reducers,
                          returned, nCalls, nBuilds, composed, nComposed,
                          actionize, invoked>>

(***************************************************************************)
(* The Actionize registry: names, creators, cached reducers and the        *)
(* validator of action types.                                              *)
(***************************************************************************)
\* new Actionize(options): _creators, _reducers and _actionTypes are plain
\* objects, _reducersReserved is an array.
NewActionize ==
    [creators |-> <<>>, reducers |-> <<>>, actionTypes |-> {},
     reducersReserved |-> <<>>]

\* A member a plain object inherits from Object.prototype: a function that
\* has no type and no own enumerable property.
Inherited(name) == [fn |-> "function", type |-> NoType, inherited |-> name]

\* obj[name] of a plain object: its own entry, else what it inherits.
Member(obj, name) ==
    IF Slot(obj, name) # {}
    THEN obj[CHOOSE i \in Slot(obj, name) : TRUE].value
    ELSE IF name \in ObjectPrototypeKeys THEN Inherited(name)
    ELSE Undefined

\* Actionize.validateName(name)
validateName(name) ==
    IF name = NotAString
    THEN [ok |-> FALSE, error |-> "Actionize name must be a string."]
    ELSE IF Matches(name, {"#", ":", "|"})
    THEN [ok |-> FALSE, error |-> "Actionize name cannot contain characters"]
    ELSE [ok |-> TRUE, error |-> ""]

\* The creators of the program.  () => value returns a value the program
\* holds; build => build.reducer(initialState, actions) builds a reducer
\* with the builder it is given.
Returns_(value) == [fn |-> "creator", kind |-> "returns", value |-> value]
Builds(actions) == [fn |-> "creator", kind |-> "builds", actions |-> actions]

\* A value that is not a function ('not-a-function').
NotAFunction == [js |-> "string", id |-> "not-a-function"]

\* typeof value === 'function', of a creator, of what a creator returns
\* and of a property of a reducer.
IsFunctionObject(value) == "fn" \in DOMAIN value \/ "ref" \in DOMAIN value

\* Object.keys(f) of a function, with the values.
OwnProps(f) == IF "ref" \in DOMAIN f THEN PropsOf(f) ELSE <<>>

\* item.type of a function object.
TypeOfFunction(item) == IF "ref" \in DOMAIN item THEN NoType ELSE TypeTag(item, handlerType)

\* reserved.indexOf(reducer) >= 0
IsReserved(reserved, reducer) == \E i \in 1..Len(reserved) : reserved[i] = reducer

\* A mutant of IsRecorded: no type is found recorded.
IsRecorded_Never(types, type) == FALSE

\* types[type]: types is a plain object.
IsRecorded(types, type) == type \in types \/ type \in ObjectPrototypeKeys

\* The end of the walk of one reducer: if (reserve) reserved.push(reducer).
EndOfWalk(st, reducer, reserve) ==
    IF st.ok /\ reserve
    THEN [st EXCEPT !.reserved = Append(st.reserved, reducer)]
    ELSE st

\* _reserveActionTypes(reducer), on the validator state st: the recorded
\* types and the reserved reducers.  A throw ends every walk under way and
\* keeps what was recorded before it.
RECURSIVE ReserveItems(_, _, _, _)
ReserveItems(st, reducer, items, reserve) ==
    IF ~st.ok \/ items = <<>> THEN EndOfWalk(st, reducer, reserve)
    ELSE LET item == Head(items).value
             type == TypeOfFunction(item)
         IN IF ~IsFunctionObject(item)
            THEN ReserveItems(st, reducer, Tail(items), reserve)
            ELSE IF Truthy(type)
            THEN IF IsRecorded(st.types, type)
                 THEN [st EXCEPT !.ok = FALSE, !.error = "is defined twice",
                                 !.twice = type]
                 ELSE ReserveItems([st EXCEPT !.types = st.types \cup {type}],
                                   reducer, Tail(items), TRUE)
            ELSE IF IsReserved(st.reserved, item)
            THEN ReserveItems(st, reducer, Tail(items), reserve)
            ELSE ReserveItems(ReserveItems(st, item, OwnProps(item), FALSE),
                              reducer, Tail(items), reserve)

\* this._reserveActionTypes(reducer), as get calls it; props are the own
\* properties of the reducer, which the creator may just have built.
reserveActionTypes(types, reserved, reducer, props) ==
    LET st == [ok |-> TRUE, error |-> "", twice |-> NoType, types |-> types,
               reserved |-> reserved]
    IN IF IsReserved(reserved, reducer) THEN st
       ELSE ReserveItems(st, reducer, props, FALSE)

\* A mutant of set: a name that is defined is given the new creator.
set_Overwrite(A, name, creator) ==
    LET v == validateName(name)
    IN IF ~v.ok THEN [ok |-> FALSE, error |-> v.error, actionize |-> A]
       ELSE IF ~IsFunctionObject(creator)
       THEN [ok |-> FALSE, error |-> "Creator given must be a function.",
             actionize |-> A]
       ELSE [ok |-> TRUE, error |-> "",
             actionize |-> [A EXCEPT !.creators = SetProp(A.creators, name, creator)]]

\* set(name, creator), on the instance A.
set(A, name, creator) ==
    LET v == validateName(name)
    IN IF ~v.ok THEN [ok |-> FALSE, error |-> v.error, actionize |-> A]
       ELSE IF ~IsFunctionObject(creator)
       THEN [ok |-> FALSE, error |-> "Creator given must be a function.",
             actionize |-> A]
       ELSE IF Member(A.creators, name) # Undefined
       THEN [ok |-> FALSE, error |-> "Name given already defined.", actionize |-> A]
       ELSE [ok |-> TRUE, error |-> "",
             actionize |-> [A EXCEPT !.creators = SetProp(A.creators, name, creator)]]

\* creator(new ActionizeBuild(name, this._options)): what the creator
\* returns, the own properties of that value, and the build it made, if any.
Invoke(creator, name) ==
    IF creator.kind = "builds"
    THEN LET rid == Len(reducers) + 1
             acc == BuildOutcome(rid, name, creator.actions)
         IN [ok |-> acc.ok, error |-> acc.error,
             value |-> IF acc.ok THEN LeafRef(rid) ELSE Undefined,
             props |-> acc.props, built |-> TRUE, acc |-> acc]
    ELSE [ok |-> TRUE, error |-> "", value |-> creator.value,
          props |-> OwnProps(creator.value), built |-> FALSE, acc |-> StartBuild]

\* What a call of get does without invoking a creator.
NotInvoked(A, ok, error, value) ==
    [ok |-> ok, error |-> error, twice |-> NoType, value |-> value,
     actionize |-> A, invoked |-> FALSE, built |-> FALSE, acc |-> StartBuild]

\* What a call of get does after its creator returned or threw.
AfterCreator(A, made, ok, error) ==
    [ok |-> ok, error |-> error, twice |-> NoType,
     value |-> IF ok THEN made.value ELSE Undefined,
     actionize |-> A, invoked |-> TRUE, built |-> made.built, acc |-> made.acc]

\* A mutant of get: a reducer that was returned before is made again.
get_Uncached(A, name) ==
    LET creator == Member(A.creators, name)
        made == Invoke(creator, name)
        st == reserveActionTypes(A.actionTypes, A.reducersReserved, made.value,
                                 made.props)
        walked == [A EXCEPT !.actionTypes = st.types,
                            !.reducersReserved = st.reserved]
    IN IF creator = Undefined \/ "kind" \notin DOMAIN creator
       THEN NotInvoked(A, FALSE, "Name given to actionize.get(name) is not defined.",
                       Undefined)
       ELSE IF ~made.ok THEN AfterCreator(A, made, FALSE, made.error)
       ELSE IF ~IsFunctionObject(made.value)
       THEN AfterCreator(A, made, FALSE, "Creator given must return a function.")
       ELSE IF ~st.ok
       THEN [AfterCreator(walked, made, FALSE, st.error) EXCEPT !.twice = st.twice]
       ELSE AfterCreator([walked EXCEPT
                             !.reducers = SetProp(A.reducers, name, made.value)],
                         made, TRUE, "")

\* get(name), on the instance A.
get(A, name) ==
    LET cached == Member(A.reducers, name)
        creator == Member(A.creators, name)
        made == Invoke(creator, name)
        st == reserveActionTypes(A.actionTypes, A.reducersReserved, made.value,
                                 made.props)
        walked == [A EXCEPT !.actionTypes = st.types,
                            !.reducersReserved = st.reserved]
    IN IF cached # Undefined THEN NotInvoked(A, TRUE, "", cached)
       ELSE IF creator = Undefined
       THEN NotInvoked(A, FALSE, "Name given to actionize.get(name) is not defined.",
                       Undefined)
       ELSE IF ~made.ok THEN AfterCreator(A, made, FALSE, made.error)
       ELSE IF ~IsFunctionObject(made.value)
       THEN AfterCreator(A, made, FALSE, "Creator given must return a function.")
       ELSE IF ~st.ok
       THEN [AfterCreator(walked, made, FALSE, st.error) EXCEPT !.twice = st.twice]
       ELSE AfterCreator([walked EXCEPT
                             !.reducers = SetProp(A.reducers, name, made.value)],
                         made, TRUE, "")

\* The names the program uses: two that are valid, four that are not, and
\* the name of a member of Object.prototype.
ValidNames == {<<"a">>, <<"a", "a">>}
InvalidNames == {NotAString, <<"a", "|">>, <<"a", ":">>, <<"a", "#">>}
ConstructorName == <<"c","o","n","s","t","r","u","c","t","o","r">>

\* The creators it passes: one that builds a reducer with the action 'a',
\* one that returns a string, and one for each reducer the program holds
\* that returns it.
BuildsA == Builds(LeafMaps[<<"a">>])
Creators ==
    {BuildsA, Returns_(NotAFunction)} \cup {Returns_(r) : r \in Refs}

\* The calls of set and define: every valid name with every creator, one
\* call with a creator that is no function, and the inherited name and
\* every invalid name with a creator.
Definitions ==
    (ValidNames \X Creators)
    \cup {<<<<"a">>, NotAFunction>>}
    \cup ((InvalidNames \cup {ConstructorName}) \X {BuildsA})

\* The state after a call of get with outcome r that invoked, if any, the
\* given creator.
Resolved(op, name, creator, r) ==
    /\ actionize' = r.actionize
    /\ invoked' = IF r.invoked THEN Append(invoked, name) ELSE invoked
    /\ actionTypeTicks' = r.acc.ticks
    /\ actionTypes' = r.acc.types
    /\ returned' = r.acc.hist
    /\ handlerType' = r.acc.tags
    /\ nBuilds' = IF r.built THEN nBuilds + 1 ELSE nBuilds
    /\ reducers' =
          IF r.built /\ r.acc.ok
          THEN Append(reducers,
                  [namespace |-> name, initialState |-> Object("init"),
                   actions |-> creator.actions, actionHandlers |-> r.acc.table,
                   props |-> r.acc.props, direct |-> r.acc.direct])
          ELSE reducers
    /\ last' = [op |-> op, name |-> name, creator |-> creator, ok |-> r.ok,
                error |-> r.error, twice |-> r.twice, value |-> r.value,
                invoked |-> r.invoked]
    /\ UNCHANGED <<api, nCalls, composed, nComposed>>

\* A creator that builds has room for its reducer.
HasRoom(creator) ==
    IF "kind" \notin DOMAIN creator THEN TRUE
    ELSE IF creator.kind # "builds" THEN TRUE
    ELSE nBuilds < MaxBuilds /\ nBuilds + nComposed < MaxParts

\* The program has made no call of its Actionize instance yet: it builds
\* and composes the reducers its creators return before it registers them.
Unregistered == last.op \notin {"set", "define", "get"}

\* A reducer with the action 'a' and the first handler, in either namespace.
BuildKeyA ==
    /\ nBuilds + nComposed < MaxParts
    /\ \E namespace \in Namespaces :
          Build(namespace, Object("init"), LeafMaps[<<"a">>])

\* A reducer of the namespace 'aa' with two actions, 'a' and 'c'.
BuildTwoActions ==
    /\ nBuilds + nComposed < MaxParts
    /\ Build(<<"a", "a">>, Object("init"),
             ActionMap(<<[key |-> <<"a">>, value |-> HandlerAt(1)],
                         [key |-> <<"c">>, value |-> HandlerAt(2)]>>))

\* A reducer of the namespace 'aa' that has no action of its own and
\* handles, under a composite key, the action 'a' of the namespace 'a'.
BuildHandling ==
    /\ nBuilds + nComposed < MaxParts
    /\ Build(<<"a", "a">>, Object("init"),
             ActionMap(<<[key |-> LiteralType, value |-> HandlerAt(2)]>>))

\* actionize.set(name, creator), for a name and a creator of the pairs given.
Set_(pairs) ==
    \E d \in pairs :
        LET r == set(actionize, d[1], d[2])
        IN /\ actionize' = r.actionize
           /\ last' = [op |-> "set", name |-> d[1], creator |-> d[2], ok |-> r.ok,
                       error |-> r.error, twice |-> NoType, value |-> Undefined,
                       invoked |-> FALSE]
           /\ UNCHANGED <<api, actionTypeTicks, actionTypes, handlerType, reducers,
                          returned, nCalls, nBuilds, composed, nComposed, invoked>>

\* A mutant of Define_: define only sets.
Define_Lazy(pairs) ==
    \E d \in pairs :
        LET r == set(actionize, d[1], d[2])
        IN /\ actionize' = r.actionize
           /\ last' = [op |-> "define", name |-> d[1], creator |-> d[2],
                       ok |-> r.ok, error |-> r.error, twice |-> NoType,
                       value |-> Undefined, invoked |-> FALSE]
           /\ UNCHANGED <<api, actionTypeTicks, actionTypes, handlerType, reducers,
                          returned, nCalls, nBuilds, composed, nComposed, invoked>>

\* actionize.define(name, creator): set, then get.
Define_(pairs) ==
    \E d \in pairs :
        LET s == set(actionize, d[1], d[2])
        IN /\ Len(invoked) < MaxInvoked
           /\ HasRoom(d[2])
           /\ IF s.ok
              THEN Resolved("define", d[1], d[2], get(s.actionize, d[1]))
              ELSE Resolved("define", d[1], d[2],
                            NotInvoked(actionize, FALSE, s.error, Undefined))

\* actionize.get(name), for a name of those given.
Get_(names) ==
    \E name \in names :
        LET creator == Member(actionize.creators, name)
        IN /\ Len(invoked) < MaxInvoked
           /\ HasRoom(creator)
           /\ Resolved("get", name, creator, get(actionize, name))

\* The calls of a program that registers every kind of creator under
\* every kind of name.
CallSet == Set_(Definitions)
CallDefine == Define_(Definitions)
CallGet == Get_(ValidNames \cup {ConstructorName, NotAString})

\* The one reducer that program builds itself.
BuildOne == reducers = <<>> /\ Unregistered /\ BuildLeaf

\* The calls of a program that defines the reducers it has built and
\* composed, each under a valid name, and gets them again.
Compositions == ValidNames \X {Returns_(r) : r \in Refs}
DefineComposition == Define_(Compositions)
GetComposition == Get_(ValidNames)

(***************************************************************************)
(* Creators that call get: a creator may get the reducer of another name   *)
(* of the same instance while it runs.                                     *)
(***************************************************************************)
\* build => { a.get(deps[1]); ...; return value }: a creator that gets the
\* reducers of the names in deps, in that order, and then returns a reducer
\* the program holds.
Gets(deps, value) ==
    [fn |-> "creator", kind |-> "gets", deps |-> deps, value |-> value]

\* The depth of nested creators at which the call stack of the engine is
\* exhausted.
MaxStack == 4

\* What happens during a call of get, in order: a creator is invoked, a
\* creator has returned, a reducer is stored in _reducers, a stored reducer
\* is returned.
Happened(ev, name) == [ev |-> ev, name |-> name]

\* The outcome of a call of get on the instance it leaves as A.
Got(A, ok, error, twice, value, events) ==
    [ok |-> ok, error |-> error, twice |-> twice, value |-> value,
     actionize |-> A, events |-> events]

RECURSIVE getNested(_, _, _, _)
RECURSIVE GetEach(_, _, _, _)

\* A mutant of getNested: only the outermost call stores its reducer.
getNested_StoreLast(A, name, events, depth) ==
    LET cached == Member(A.reducers, name)
        creator == Member(A.creators, name)
        entered == Append(events, Happened("invoked", name))
        ran == IF creator.kind = "gets"
               THEN GetEach(A, creator.deps, entered, depth + 1)
               ELSE Got(A, TRUE, "", NoType, Undefined, entered)
        B == ran.actionize
        st == reserveActionTypes(B.actionTypes, B.reducersReserved, creator.value,
                                 OwnProps(creator.value))
        walked == [B EXCEPT !.actionTypes = st.types,
                            !.reducersReserved = st.reserved]
        back == Append(ran.events, Happened("returned", name))
    IN IF cached # Undefined
       THEN Got(A, TRUE, "", NoType, cached,
                Append(events, Happened("cached before", name)))
       ELSE IF creator = Undefined
       THEN Got(A, FALSE, "Name given to actionize.get(name) is not defined.",
                NoType, Undefined, events)
       ELSE IF depth >= MaxStack
       THEN Got(A, FALSE, "Maximum call stack size exceeded", NoType, Undefined,
                events)
       ELSE IF ~ran.ok THEN ran
       ELSE IF ~IsFunctionObject(creator.value)
       THEN Got(B, FALSE, "Creator given must return a function.", NoType,
                Undefined, back)
       ELSE IF ~st.ok THEN Got(walked, FALSE, st.error, st.twice, Undefined, back)
       ELSE Got([walked EXCEPT
                    !.reducers = IF depth = 0
                                 THEN SetProp(B.reducers, name, creator.value)
                                 ELSE B.reducers],
                TRUE, "", NoType, creator.value,
                IF depth = 0 THEN Append(back, Happened("stored", name)) ELSE back)

\* get(name) on the instance A, entered under depth running creators after
\* the events given happened: the creator it invokes may call get itself.
getNested(A, name, events, depth) ==
    LET cached == Member(A.reducers, name)
        creator == Member(A.creators, name)
        entered == Append(events, Happened("invoked", name))
        ran == IF creator.kind = "gets"
               THEN GetEach(A, creator.deps, entered, depth + 1)
               ELSE Got(A, TRUE, "", NoType, Undefined, entered)
        B == ran.actionize
        st == reserveActionTypes(B.actionTypes, B.reducersReserved, creator.value,
                                 OwnProps(creator.value))
        walked == [B EXCEPT !.actionTypes = st.types,
                            !.reducersReserved = st.reserved]
        back == Append(ran.events, Happened("returned", name))
    IN IF cached # Undefined
       THEN Got(A, TRUE, "", NoType, cached,
                Append(events, Happened("cached before", name)))
       ELSE IF creator = Undefined
       THEN Got(A, FALSE, "Name given to actionize.get(name) is not defined.",
                NoType, Undefined, events)
       ELSE IF depth >= MaxStack
       THEN Got(A, FALSE, "Maximum call stack size exceeded", NoType, Undefined,
                events)
       ELSE IF ~ran.ok THEN ran
       ELSE IF ~IsFunctionObject(creator.value)
       THEN Got(B, FALSE, "Creator given must return a function.", NoType,
                Undefined, back)
       ELSE IF ~st.ok THEN Got(walked, FALSE, st.error, st.twice, Undefined, back)
       ELSE Got([walked EXCEPT !.reducers = SetProp(B.reducers, name, creator.value)],
                TRUE, "", NoType, creator.value,
                Append(back, Happened("stored", name)))

\* The calls of get a running creator makes, one name after the other; a
\* call that throws ends the creator.
GetEach(A, deps, events, depth) ==
    IF deps = <<>> THEN Got(A, TRUE, "", NoType, Undefined, events)
    ELSE LET r == getNested(A, Head(deps), events, depth)
         IN IF ~r.ok THEN r
            ELSE GetEach(r.actionize, Tail(deps), r.events, depth)

\* The names of a program with three reducers, and the names a creator of
\* that program gets: one, which may be its own, or two.
DepNames == {<<"a">>, <<"b">>, <<"c">>}
DepLists == {<<<<"b">>>>, <<<<"c">>>>, <<<<"b">>, <<"c">>>>}

\* The creators the calls of get of that program may have invoked before
\* it makes another.
MaxGets == 2

\* The calls of set of that program: every name with a creator that returns
\* a reducer it holds or a string, after getting other reducers or not.
NestedDefinitions ==
    DepNames \X ({Returns_(r) : r \in Refs \cup {NotAFunction}}
                 \cup {Gets(deps, r) : deps \in DepLists, r \in Refs})

\* The program sets its names in alphabetical order.
NextName(A) ==
    IF Len(A.creators) = 0 THEN <<"a">>
    ELSE IF Len(A.creators) = 1 THEN <<"b">>
    ELSE <<"c">>
SetNested == Set_({d \in NestedDefinitions : d[1] = NextName(actionize)})

\* The names of the creators invoked, in order.
InvokedIn(events) ==
    LET calls == SelectSeq(events, LAMBDA e : e.ev = "invoked")
    IN [i \in 1..Len(calls) |-> calls[i].name]

\* actionize.get(name) of that program.
GetNested ==
    \E name \in DepNames :
        LET r == getNested(actionize, name, <<>>, 0)
        IN /\ Len(invoked) < MaxGets
           /\ actionize' = r.actionize
           /\ invoked' = invoked \o InvokedIn(r.events)
           /\ last' = [op |-> "get", name |-> name,
                       creator |-> Member(actionize.creators, name), ok |-> r.ok,
                       error |-> r.error, twice |-> r.twice, value |-> r.value,
                       invoked |-> InvokedIn(r.events) # <<>>,
                       events |-> r.events]
           /\ UNCHANGED <<api, actionTypeTicks, actionTypes, handlerType, reducers,
                          returned, nCalls, nBuilds, composed, nComposed>>

(***************************************************************************)
(* The dispatcher: dispatcher(actions, dispatch) walks the tree of actions *)
(* and returns a tree of invokers.                                         *)
(***************************************************************************)
\* An object the program made, with its own enumerable properties; two
\* objects are the same only if they have the same id.
Mapping(id, entries) == [js |-> "mapping", id |-> id, entries |-> entries]

\* A number.
Number == [js |-> "number"]

\* typeof value === 'object'; null is an object.
IsObjectValue(value) == "js" \in DOMAIN value /\ value.js \in {"mapping", "null"}

\* Object.keys(value), with the values, of a function or an object.
EntriesOf(value) ==
    IF "js" \in DOMAIN value
    THEN IF value.js = "mapping" THEN value.entries ELSE <<>>
    ELSE OwnProps(value)

\* processedItems.indexOf(value), counted from 1; 0 when it is not there.
IndexOf(items, value) ==
    IF \E i \in 1..Len(items) : items[i] = value
    THEN CHOOSE i \in 1..Len(items) :
            items[i] = value /\ \A j \in 1..(i - 1) : items[j] # value
    ELSE 0

\* args => dispatch({ ...args, type: value.type }), the n-th result made.
Invoker(value, n) == [fn |-> "invoker", of |-> value, made |-> n]

\* The object a level returns: the n-th result made, 0 for the outermost.
Level(n, entries) == [js |-> "level", made |-> n, entries |-> entries]

\* The state of one call of dispatcher at its start: the processed items,
\* their results, the values dispatcherLevel was called with so far, and
\* the result of the level under way.
StartDispatch ==
    [ok |-> TRUE, error |-> "", items |-> <<>>, results |-> <<>>,
     converted |-> <<>>, result |-> <<>>]

\* dispatcherLevel(value) is entered: Object.keys(value) throws for null
\* and undefined, const result = {}.
Enter(acc, value) ==
    IF Falsy(value)
    THEN [acc EXCEPT !.ok = FALSE,
                     !.error = "Cannot convert undefined or null to object"]
    ELSE [acc EXCEPT !.result = <<>>, !.converted = Append(acc.converted, value)]

\* result[key] = processedResults[processedIndex]
Reused(acc, key, out) == [acc EXCEPT !.result = SetProp(acc.result, key, out)]

\* result[key] = invoker; processedItems.push(value);
\* processedResults.push(invoker)
Kept(acc, key, value, out) ==
    [acc EXCEPT !.result = SetProp(acc.result, key, out),
                !.items = Append(acc.items, value),
                !.results = Append(acc.results, out)]

\* const nested = dispatcherLevel(value) returned, in the state inner, to
\* the level that was in the state outer: a nested result that has keys is
\* stored and remembered, an empty one is dropped.
AfterLevel(outer, inner, key, value) ==
    IF inner.ok /\ inner.result # <<>>
    THEN Kept([inner EXCEPT !.result = outer.result], key, value,
              Level(Len(inner.items) + 1, inner.result))
    ELSE [inner EXCEPT !.result = outer.result]

\* A mutant of DispatcherLevel: a value that was processed is processed
\* again.
RECURSIVE DispatcherLevel_NoMemo(_, _)
DispatcherLevel_NoMemo(acc, entries) ==
    IF ~acc.ok \/ entries = <<>> THEN acc
    ELSE LET key == Head(entries).name
             value == Head(entries).value
         IN IF IsFunctionObject(value) /\ Truthy(TypeOfFunction(value))
            THEN DispatcherLevel_NoMemo(
                    Kept(acc, key, value, Invoker(value, Len(acc.items) + 1)),
                    Tail(entries))
            ELSE IF IsFunctionObject(value) \/ IsObjectValue(value)
            THEN DispatcherLevel_NoMemo(
                    AfterLevel(acc,
                               DispatcherLevel_NoMemo(Enter(acc, value),
                                                      EntriesOf(value)),
                               key, value),
                    Tail(entries))
            ELSE DispatcherLevel_NoMemo(acc, Tail(entries))

\* The forEach of dispatcherLevel over the entries that are left.
RECURSIVE DispatcherLevel(_, _)
DispatcherLevel(acc, entries) ==
    IF ~acc.ok \/ entries = <<>> THEN acc
    ELSE LET key == Head(entries).name
             value == Head(entries).value
             processedIndex == IndexOf(acc.items, value)
         IN IF processedIndex > 0
            THEN DispatcherLevel(Reused(acc, key, acc.results[processedIndex]),
                                 Tail(entries))
            ELSE IF IsFunctionObject(value) /\ Truthy(TypeOfFunction(value))
            THEN DispatcherLevel(
                    Kept(acc, key, value, Invoker(value, Len(acc.items) + 1)),
                    Tail(entries))
            ELSE IF IsFunctionObject(value) \/ IsObjectValue(value)
            THEN DispatcherLevel(
                    AfterLevel(acc,
                               DispatcherLevel(Enter(acc, value), EntriesOf(value)),
                               key, value),
                    Tail(entries))
            ELSE DispatcherLevel(acc, Tail(entries))

\* dispatcher(actions, dispatch)
dispatcher(actions) ==
    DispatcherLevel(Enter(StartDispatch, actions), EntriesOf(actions))

\* A mutant of InvokerCall: the type of the payload is kept.
InvokerCall_PayloadType(f, args) ==
    <<IF args = Undefined THEN SpreadWithType(args, TypeOfFunction(f.of)) ELSE args>>

\* invoker(args): the messages dispatch is called with, in order.
InvokerCall(f, args) == <<SpreadWithType(args, TypeOfFunction(f.of))>>

\* The typed functions among the properties of a reducer.
NamedActions(ref) ==
    {PropsOf(ref)[i].value :
        i \in {j \in 1..Len(PropsOf(ref)) : IsTypedAction(PropsOf(ref)[j])}}

\* The trees of actions the program passes: a reducer; an object that holds
\* a reducer, one of its actions and an object that holds the action; an
\* object that holds another object, which holds a reducer, under two keys;
\* an object that holds a reducer, a number and an empty object under two
\* keys; and an object that holds null.
Entry_(name, value) == [name |-> <<name>>, value |-> value]
SourceTrees ==
    Refs
    \cup {Mapping(1, <<Entry_("r", r), Entry_("f", a),
                       Entry_("m", Mapping(2, <<Entry_("g", a)>>))>>) :
             r \in Refs, a \in UNION {NamedActions(q) : q \in Refs}}
    \cup {Mapping(1, <<Entry_("x", Mapping(2, <<Entry_("k", r)>>)),
                       Entry_("y", Mapping(2, <<Entry_("k", r)>>))>>) : r \in Refs}
    \cup {Mapping(1, <<Entry_("x", r), Entry_("n", Number),
                       Entry_("e", Mapping(2, <<>>)),
                       Entry_("f", Mapping(2, <<>>))>>) : r \in Refs}
    \cup {Mapping(1, <<Entry_("x", Null)>>)}

\* The invokers of a tree dispatcher returned.
RECURSIVE Invokers(_)
Invokers(out) ==
    IF "fn" \in DOMAIN out THEN {out}
    ELSE UNION {Invokers(out.entries[i].value) : i \in 1..Len(out.entries)}

\* The program has not called dispatcher yet: it builds the reducers first.
Undispatched == last.op \notin {"dispatcher", "invoker"}

\* actionize.dispatcher(actions, dispatch)
CallDispatcher ==
    /\ \E actions \in SourceTrees :
          LET r == dispatcher(actions)
          IN last' = [op |-> "dispatcher", actions |-> actions, ok |-> r.ok,
                      error |-> r.error, result |-> Level(0, r.result),
                      items |-> r.items, results |-> r.results,
                      converted |-> r.converted]
    /\ UNCHANGED <<api, actionTypeTicks, actionTypes, handlerType, reducers,
                   returned, nCalls, nBuilds, composed, nComposed, actionize,
                   invoked>>

\* A call of an invoker of the tree dispatcher returned last.
CallInvoker ==
    /\ last.op = "dispatcher"
    /\ last.ok
    /\ \E f \in Invokers(last.result), args \in Payloads :
          last' = [op |-> "invoker", actions |-> last.actions,
                   result |-> last.result, invoker |-> f, args |-> args,
                   emitted |-> InvokerCall(f, args)]
    /\ UNCHANGED <<api, actionTypeTicks, actionTypes, handlerType, reducers,
                   returned, nCalls, nBuilds, composed, nComposed, actionize,
                   invoked>>

(***************************************************************************)
(* The context of the handlers of an ActionizeBuild reducer.               *)
(***************************************************************************)
\* The functions a builder may have as options.context.  What the first
\* computes is left open: it returns a fresh object that records the
\* arguments it was called with.  The second returns nothing.
Provider(id) == [fn |-> "provider", id |-> id]

\* this._options of a builder, as it is when a handler is invoked: with no
\* context, or with a context provider.
BuilderOptions == {[context |-> Undefined]} \cup {[context |-> Provider(i)] : i \in 1..2}

\* contextFunc(actionHandler, reducerFunc)
ContextFunc(contextFunc, actionHandler, reducerFunc) ==
    IF contextFunc.id = 1
    THEN [js |-> "context", handler |-> actionHandler, reducer |-> reducerFunc]
    ELSE Undefined

\* actionHandler.call(context, state, action): the value is a fresh object
\* that records the handler, its receiver and its arguments.
CallOn(actionHandler, context, state, action) ==
    [js |-> "result", of |-> actionHandler, receiver |-> context,
     state |-> state, action |-> action]

\* A mutant of actionCall: the provider is given the handler only.
actionCall_HandlerOnly(options, f, state, action) ==
    LET contextFunc == options.context
        context == IF contextFunc # Undefined
                   THEN ContextFunc(contextFunc, f.handler, Undefined)
                   ELSE Null
    IN [value |-> CallOn(f.handler, context, state, action),
        call |-> [handler |-> f.handler, receiver |-> context,
                  state |-> state, action |-> action,
                  provided |-> IF contextFunc # Undefined
                               THEN <<[provider |-> contextFunc,
                                       args |-> <<f.handler>>]>>
                               ELSE <<>>]]

\* actionCall(state, action) of the builder whose options are given: the
\* value returned, and the call made with the provider calls before it.
actionCall(options, f, state, action) ==
    LET contextFunc == options.context
        context == IF contextFunc # Undefined
                   THEN ContextFunc(contextFunc, f.handler, LeafRef(f.reducer))
                   ELSE Null
    IN [value |-> CallOn(f.handler, context, state, action),
        call |-> [handler |-> f.handler, receiver |-> context,
                  state |-> state, action |-> action,
                  provided |-> IF contextFunc # Undefined
                               THEN <<[provider |-> contextFunc,
                                       args |-> <<f.handler, LeafRef(f.reducer)>>]>>
                               ELSE <<>>]]

\* handlers.forEach(handler => state = handler(state, action)) over the
\* actionCalls that are left.
RECURSIVE ForEachHandler(_, _, _, _, _)
ForEachHandler(options, handlers, state, action, calls) ==
    IF handlers = <<>> THEN Returns(state, calls)
    ELSE ForEachHandler(options, Tail(handlers),
                        actionCall(options, Head(handlers), state, action).value,
                        action,
                        Append(calls,
                               actionCall(options, Head(handlers), state, action).call))

\* reducerFunc(state, action) of the builder whose options are given.
reducerFunc(options, R, state, action) ==
    LET given == IF state = Undefined THEN R.initialState ELSE state
        actionType == IF action = Undefined THEN NoType ELSE action.type
    IN IF ~Truthy(actionType) THEN Returns(given, <<>>)
       ELSE IF Slot(R.actionHandlers, actionType) # {}
       THEN ForEachHandler(options,
                R.actionHandlers[CHOOSE j \in Slot(R.actionHandlers, actionType) : TRUE].handlers,
                given, action, <<>>)
       ELSE IF actionType \in ObjectPrototypeKeys
       THEN Throws("handlers.forEach is not a function")
       ELSE Returns(given, <<>>)

\* R(state, action), R built by a builder whose options are given.
DispatchBuilt ==
    \E rid \in 1..Len(reducers), options \in BuilderOptions :
      \E state \in States, action \in Messages(reducers[rid]) :
        LET r == reducerFunc(options, reducers[rid], state, action)
        IN /\ last' = [op |-> "dispatchBuilt", reducer |-> rid, options |-> options,
                       state |-> state, action |-> action, ok |-> r.ok,
                       error |-> r.error, value |-> r.value, calls |-> r.calls]
           /\ UNCHANGED <<api, actionTypeTicks, actionTypes, handlerType, reducers,
                          returned, nCalls, nBuilds, composed, nComposed,
                          actionize, invoked>>

\* R[key](state, action), R built by a builder whose options are given.
CallBuilt ==
    \E rid \in 1..Len(reducers), options \in BuilderOptions :
      \E i \in 1..Len(reducers[rid].props), state \in States, action \in Payloads :
        LET r == actionCall(options, reducers[rid].props[i].value, state, action)
        IN /\ last' = [op |-> "callBuilt", reducer |-> rid, options |-> options,
                       key |-> reducers[rid].props[i].name, state |-> state,
                       action |-> action, ok |-> TRUE, error |-> "",
                       value |-> r.value, calls |-> <<r.call>>]
           /\ UNCHANGED <<api, actionTypeTicks, actionTypes, handlerType, reducers,
                          returned, nCalls, nBuilds, composed, nComposed,
                          actionize, invoked>>

(***************************************************************************)
Fresh ==
    /\ actionTypeTicks = <<>>
    /\ actionTypes = {}
    /\ handlerType = [h \in Handlers \cup {ObjectValue} |-> NoType]
    /\ reducers = <<>>
    /\ returned = <<>>
    /\ nCalls = 0
    /\ nBuilds = 0
    /\ composed = <<>>
    /\ nComposed = 0
    /\ actionize = NewActionize
    /\ invoked = <<>>

Start == Fresh /\ last = NoOp

Init == api \in Apis /\ Start

Next == BuildReducer \/ Dispatch \/ CallAction

\* A program that builds reducers with one of the three APIs and uses them.
Spec == Init /\ [][Next]_vars

InitRegistry == api \in {"index", "Actionize"} /\ Start

NextRegistry == CreateActionType \/ InstanceCreateActionType

\* The allocator alone, called with every namespace and key of the input sets.
SpecRegistry == InitRegistry /\ [][NextRegistry]_vars

NextUnchecked == CreateActionType \/ InstanceCreateActionType \/ BuildUnchecked

\* The allocator, called directly and by builds whose namespace and keys may
\* be malformed.
SpecUnchecked == InitRegistry /\ [][NextUnchecked]_vars

InitHandle ==
    /\ api = "ActionizeBuild"
    /\ Fresh
    /\ \E items \in ItemLists : last = [op |-> "items", items |-> items]

NextHandle == Handle \/ SplitKey \/ BuildWithKey

\* handle(...) applied to every list of items, and the builder's split of
\* what it returns.
SpecHandle == InitHandle /\ [][NextHandle]_vars

NextValues == BuildMixed \/ Dispatch \/ CallAction

\* Reducers built from maps that hold functions and other values, and used.
SpecValues == Init /\ [][NextValues]_vars

\* Compositions over the module-level functions and over ActionizeBuild.
InitCompose == api \in {"index", "ActionizeBuild"} /\ Start
NextCompose ==
    \/ BuildLeaf
    \/ Combine
    \/ CombinePlain
    \/ CombineImmutable
    \/ Nest
    \/ NestPlain
    \/ DispatchComposed
    \/ CallAgain
SpecCompose == InitCompose /\ [][NextCompose]_vars

\* A program that registers creators in one Actionize instance and
\* resolves them.
InitActionize == api = "ActionizeBuild" /\ Start
NextActionize == BuildOne \/ CallSet \/ CallDefine \/ CallGet
SpecActionize == InitActionize /\ [][NextActionize]_vars

\* A program that builds and composes reducers with ActionizeBuild, then
\* registers them in one Actionize instance, whose get validates them.
NextValidate ==
    \/ Unregistered /\ BuildLeaf
    \/ Unregistered /\ BuildKeyA
    \/ Unregistered /\ BuildTwoActions
    \/ Unregistered /\ BuildHandling
    \/ Unregistered /\ CombinePlain
    \/ Unregistered /\ NestPlain
    \/ DefineComposition
    \/ GetComposition
SpecValidate == InitActionize /\ [][NextValidate]_vars

\* A program that builds reducers with ActionizeBuild, then registers
\* creators that get one another in one Actionize instance.
NextNested ==
    \/ Unregistered /\ BuildLeaf
    \/ SetNested
    \/ GetNested
SpecNested == InitActionize /\ [][NextNested]_vars

\* A program that builds and composes reducers with ActionizeBuild, makes
\* a dispatcher of a tree of them and calls its invokers.
NextDispatcher ==
    \/ Undispatched /\ BuildLeaf
    \/ Undispatched /\ BuildHandling
    \/ Undispatched /\ CombinePlain
    \/ Undispatched /\ NestPlain
    \/ CallDispatcher
    \/ CallInvoker
SpecDispatcher == InitActionize /\ [][NextDispatcher]_vars

\* A program that builds reducers with ActionizeBuild, with or without a
\* context provider, and uses them.
NextContext == BuildReducer \/ DispatchBuilt \/ CallBuilt

SpecContext == InitActionize /\ [][NextContext]_vars

\* A program that builds reducers with ActionizeBuild from namespaces and
\* keys that may be malformed, and dispatches to them.
NextBuilder == BuildUnchecked \/ Dispatch

SpecBuilder == InitActionize /\ [][NextBuilder]_vars

\* Compositions by nestImmutable and combineImmutable.
NextImmutable == BuildLeaf \/ CombineImmutable \/ NestImmutable \/ DispatchComposed

SpecImmutable == InitCompose /\ [][NextImmutable]_vars

\* handle(...) applied to every list of items, a build with the key it
\* returns, and dispatches to the reducer built.
NextRepeat == Handle \/ BuildWithKey \/ Dispatch

SpecRepeat == InitHandle /\ [][NextRepeat]_vars

(***************************************************************************)
(* C1.  The first allocation of a valid (namespace, key) pair returns      *)
(* '|' + namespace + ':' + key, and the n-th one (n >= 2) returns that     *)
(* string followed by '#' + n; so the second differs from the first and is *)
(* the first with a suffix appended.                                       *)
(***************************************************************************)
FirstName(pair) == <<"|">> \o pair[1] \o <<":">> \o pair[2]

\* C1: the n-th name returned for a pair is the first name, with '#n' appended when n >= 2.
C1_NthCallSuffix ==
    \A pair \in DOMAIN returned :
        \A n \in 1..Len(returned[pair]) :
            /\ returned[pair][n] =
                  IF n = 1 THEN FirstName(pair)
                  ELSE FirstName(pair) \o <<"#">> \o NumToStr(n)
            /\ n >= 2 => returned[pair][n] # returned[pair][1]

\* A pair was allocated three times, the last call being the third.
C1_Witness ==
    /\ last.op = "createActionType" /\ last.ok
    /\ \E pair \in DOMAIN returned :
          /\ pair = <<last.namespace, last.key>>
          /\ Len(returned[pair]) = 3
          /\ returned[pair][3] = last.name

(***************************************************************************)
(* C2.  Global uniqueness: no two successful allocations return the same   *)
(* string, the set of issued types only grows, and a call leaves the       *)
(* counter of every prefix other than its own unchanged.                   *)
(***************************************************************************)
C2_Unique ==
    \A p \in DOMAIN returned, q \in DOMAIN returned :
        \A i \in 1..Len(returned[p]), j \in 1..Len(returned[q]) :
            (p # q \/ i # j) => returned[p][i] # returned[q][j]

C2_Step ==
    /\ actionTypes \subseteq actionTypes'
    /\ \A prefix \in DOMAIN actionTypeTicks \cup DOMAIN actionTypeTicks' :
          prefix # last'.namespace \o <<":">> \o last'.key =>
              TickOf(actionTypeTicks', prefix) = TickOf(actionTypeTicks, prefix)

\* C2: returned names are pairwise distinct; every step keeps the issued types and the other prefixes' counters.
C2_GlobalUniqueness == []C2_Unique /\ [][C2_Step]_vars

\* Two types were issued and the call that followed them was rejected.
C2_Witness ==
    /\ last.op = "createActionType" /\ ~last.ok
    /\ Cardinality(actionTypes) = 2
    /\ Cardinality(DOMAIN actionTypeTicks) = 2

(***************************************************************************)
(* C3.  A namespace containing '|', ':' or '#', or a key that is empty or  *)
(* contains '|', ':', '.' or '#', makes the allocation fail with the       *)
(* invalid-namespace / invalid-key error and leaves the counters and the   *)
(* issued types as they were; a build that declares such a direct key      *)
(* fails with that error and returns no reducer.                           *)
(***************************************************************************)
BadNamespace(namespace) == Matches(namespace, {"|", ":", "#"})
BadKey(key) == key = <<>> \/ Matches(key, {"|", ":", ".", "#"})

ExpectedError(namespace) ==
    IF BadNamespace(namespace) THEN "namespace cannot contain characters"
    ELSE "key cannot contain characters"

\* The direct keys of an action map.
DeclaredDirect(actions) ==
    {actions.entries[i].key : i \in 1..Len(actions.entries)}
        \ {k \in UncheckedKeys \cup KeyInputs : IsCompositeKey(k)}

C3_Allocation ==
    (/\ last'.op = "createActionType" /\ nCalls' = nCalls + 1
     /\ IsString(last'.namespace)
     /\ BadNamespace(last'.namespace) \/ BadKey(last'.key))
    => /\ ~last'.ok
       /\ last'.error = ExpectedError(last'.namespace)
       /\ last'.name = <<>>
       /\ actionTypeTicks' = actionTypeTicks
       /\ actionTypes' = actionTypes
       /\ returned' = returned

C3_Build ==
    (/\ last'.op = "reducer" /\ nBuilds' = nBuilds + 1
     /\ DeclaredDirect(last'.actions) # {}
     /\ \/ BadNamespace(last'.namespace)
        \/ \E key \in DeclaredDirect(last'.actions) : BadKey(key))
    => /\ ~last'.ok
       /\ last'.error = ExpectedError(last'.namespace)
       /\ last'.reducer = 0
       /\ reducers' = reducers

\* No name was ever returned for a malformed namespace or key.
C3_NothingIssued ==
    /\ \A pair \in DOMAIN returned : ~BadNamespace(pair[1]) /\ ~BadKey(pair[2])
    /\ actionTypes = UNION {{returned[pair][n] : n \in 1..Len(returned[pair])} :
                                pair \in DOMAIN returned}

C4_NoArgumentsReturnsInitialState ==
    /\ (/\ last.op = "reducer"
        /\ last.actions = Undefined \/ last.actions.entries = <<>>)
       => /\ last.ok
          /\ LET R == reducers[last.reducer]
                 r == ReducerFunc(R, Undefined, Undefined)
             IN r.ok /\ r.value = R.initialState /\ r.calls = <<>>
    /\ (last.op = "dispatch" /\ last.state = Undefined /\ last.action = Undefined)
       => /\ last.ok
          /\ last.value = reducers[last.reducer].initialState
          /\ last.calls = <<>>

(***************************************************************************)
(* C5.  A message that is absent, has no type, or has a type with no       *)
(* handler registered in the reducer's dispatch table leaves the given     *)
(* state as it is: the reducer returns it, raises nothing, calls nothing.  *)
(***************************************************************************)
\* C5: a dispatch of an absent, untyped or unregistered message returns the given state itself, without error and without calling a handler.
C5_UnmatchedReturnsGivenState ==
    (/\ last.op = "dispatch"
     /\ last.state # Undefined
     /\ \/ last.action = Undefined
        \/ ~Truthy(last.action.type)
        \/ last.action.type \notin RegisteredTypes(reducers[last.reducer]))
    => /\ last.ok
       /\ last.value = last.state
       /\ last.calls = <<>>

(***************************************************************************)
(* C6.  The handlers registered under one type run in registration order, *)
(* the order of the keys of the action map; each receives the message and  *)
(* the state its predecessor returned; the last result is returned.        *)
(***************************************************************************)
\* The type of the direct key of reducer R, as recorded when it was built.
DirectType(R, key) ==
    LET i == CHOOSE j \in 1..Len(R.direct) : R.direct[j].name = key
    IN R.direct[i].type

\* How many times type is written in a composite key.
Occurrences(key, type) ==
    Cardinality({i \in 1..Len(key) :
        /\ i + Len(type) - 1 <= Len(key)
        /\ SubSeq(key, i, i + Len(type) - 1) = type
        /\ i + Len(type) - 1 = Len(key) \/ key[i + Len(type)] = "|"})

\* The handlers the action map of R declares for type, in key order.
RECURSIVE DeclaredFor(_, _, _)
DeclaredFor(R, entries, type) ==
    IF entries = <<>> THEN <<>>
    ELSE LET e == Head(entries)
             n == IF IsCompositeKey(e.key) THEN Occurrences(e.key, type)
                  ELSE IF DirectType(R, e.key) = type THEN 1 ELSE 0
         IN [i \in 1..n |-> e.value] \o DeclaredFor(R, Tail(entries), type)

\* C6: a dispatch of a registered type calls the handlers declared for it in key order, threading the state, and returns the last result.
C6_RegistrationOrder ==
    (/\ last.op = "dispatch"
     /\ last.action # Undefined
     /\ last.action.type \in RegisteredTypes(reducers[last.reducer]))
    => LET R == reducers[last.reducer]
           expected == DeclaredFor(R, R.actions.entries, last.action.type)
           first == IF last.state = Undefined THEN R.initialState ELSE last.state
           n == Len(last.calls)
       IN /\ last.ok
          /\ n = Len(expected) /\ n >= 1
          /\ \A i \in 1..n :
                /\ last.calls[i].handler = expected[i]
                /\ last.calls[i].action = last.action
                /\ last.calls[i].state =
                      IF i = 1 THEN first
                      ELSE Apply(expected[i - 1], last.calls[i - 1].state, last.action)
          /\ last.value = Apply(expected[n], last.calls[n].state, last.action)

\* A type with two handlers was dispatched: the one of a composite key, then
\* the one of a direct key declared after it.
C6_Witness ==
    /\ last.op = "dispatch" /\ last.ok
    /\ Len(last.calls) = 2
    /\ last.calls[1].handler = HandlerAt(1)
    /\ last.calls[2].handler = HandlerAt(2)
    /\ LET entries == reducers[last.reducer].actions.entries
       IN Len(entries) = 2 /\ IsCompositeKey(entries[1].key)
          /\ ~IsCompositeKey(entries[2].key)

(***************************************************************************)
(* C7.  Every directly declared key k of a built reducer R is a property   *)
(* of R whose type tag is the type k's handler is registered under in R's  *)
(* dispatch table, and later builds never change that.                     *)
(***************************************************************************)
\* The handler the action map of R declares under key.
Declared(R, key) ==
    LET entries == R.actions.entries
    IN entries[CHOOSE i \in 1..Len(entries) : entries[i].key = key].value

\* R[key]
Prop(R, key) == R.props[CHOOSE i \in Slot(R.props, key) : TRUE].value

\* The types of R's dispatch table whose handler list runs the handler h.
RegisteredUnder(R, h) ==
    {R.actionHandlers[i].name : i \in
        {j \in 1..Len(R.actionHandlers) :
            \E k \in 1..Len(R.actionHandlers[j].handlers) :
                HandlerOf(R.actionHandlers[j].handlers[k]) = h}}

\* C7: for every reducer built so far and every direct key k, R[k] exists and R[k].type is the type its handler is registered under, the one allocated when R was built.
C7_TypeTagStable ==
    \A rid \in 1..Len(reducers) :
        LET R == reducers[rid]
        IN \A i \in 1..Len(R.direct) :
              /\ Slot(R.props, R.direct[i].name) # {}
              /\ LET tag == TypeTag(Prop(R, R.direct[i].name), handlerType)
                 IN /\ tag = R.direct[i].type
                    /\ tag \in RegisteredUnder(R, Declared(R, R.direct[i].name))

(***************************************************************************)
(* C8.  R[k](state, payload) applies k's own handler once to (state,       *)
(* payload) and returns its result, whatever payload.type is; no other     *)
(* handler runs.                                                           *)
(***************************************************************************)
\* C8: a direct call of a named action makes exactly one handler call, of the key's own handler with the arguments as given, and returns its result.
C8_DirectCallAppliesOwnHandler ==
    last.op = "call"
    => LET h == Declared(reducers[last.reducer], last.key)
       IN /\ last.ok
          /\ last.calls = <<[handler |-> h, state |-> last.state,
                             action |-> last.action]>>
          /\ last.value = Apply(h, last.state, last.action)

(***************************************************************************)
(* C9.  A composite key registers its handler under every type written in  *)
(* the key and under no other, allocates no type, tags nothing and adds no *)
(* named property; a dispatch of any of those types runs the handler.      *)
(***************************************************************************)
\* The types written in a composite key: each '|' and the characters after
\* it, up to the next '|' or the end of the key, when there are any.
EncodedTypes(key) ==
    {SubSeq(key, i, j) : i \in 1..Len(key), j \in 1..Len(key)} \cap
    UNION {{t \in {SubSeq(key, i, j)} :
                /\ i < j /\ key[i] = "|"
                /\ \A k \in (i + 1)..j : key[k] # "|"
                /\ j = Len(key) \/ key[j + 1] = "|"} :
           i \in 1..Len(key), j \in 1..Len(key)}

\* The composite entries of the action map of R.
CompositeEntries(R) ==
    {R.actions.entries[i] : i \in
        {j \in 1..Len(R.actions.entries) : IsCompositeKey(R.actions.entries[j].key)}}

C9_Registered ==
    \A rid \in 1..Len(reducers) :
        LET R == reducers[rid]
        IN /\ \A e \in CompositeEntries(R) :
                 /\ RegisteredUnder(R, e.value) = EncodedTypes(e.key)
                 /\ Slot(R.props, e.key) = {}
           /\ Len(R.props) = Len(R.actions.entries) - Cardinality(CompositeEntries(R))

C9_Dispatched ==
    (last.op = "dispatch" /\ last.action # Undefined)
    => \A e \in CompositeEntries(reducers[last.reducer]) :
          last.action.type \in EncodedTypes(e.key)
          => /\ last.ok
             /\ \E i \in 1..Len(last.calls) : last.calls[i].handler = e.value

C9_BuildStep ==
    (last'.op = "reducer" /\ nBuilds' = nBuilds + 1 /\ last'.ok)
    => LET R == reducers'[last'.reducer]
       IN /\ \A e \in CompositeEntries(R) : handlerType'[e.value] = handlerType[e.value]
          /\ Cardinality(actionTypes') <= Cardinality(actionTypes) + Len(R.direct)
          /\ CompositeEntries(R) = {R.actions.entries[i] : i \in 1..Len(R.actions.entries)}
             => actionTypes' = actionTypes /\ actionTypeTicks' = actionTypeTicks

\* C9: a composite key's handler is registered under exactly the types written in the key, with no property, no tag and no allocation, and runs when one of them is dispatched.
C9_CompositeKeyRegistration ==
    [](C9_Registered /\ C9_Dispatched) /\ [][C9_BuildStep]_vars

\* A handler declared under a key of two types ran on a dispatch of the
\* second of them, in a reducer that has no named property.
C9_Witness ==
    /\ last.op = "dispatch" /\ last.ok /\ last.action # Undefined
    /\ reducers[last.reducer].props = <<>>
    /\ \E e \in CompositeEntries(reducers[last.reducer]) :
          /\ Cardinality(EncodedTypes(e.key)) = 2
          /\ last.action.type \in EncodedTypes(e.key)
          /\ last.action.type # SubSeq(e.key, 1, Len(last.action.type))
          /\ last.calls = <<[handler |-> e.value, state |-> last.state,
                             action |-> last.action]>>

(***************************************************************************)
(* C10.  For a list of valid action types, given as strings or as actions  *)
(* carrying them, handle(...) returns their concatenation, and the         *)
(* builder's split of that string is the list again: same types, same      *)
(* order, same length, '#n' suffixes included.                             *)
(***************************************************************************)
\* '|' + namespace + ':' + key, or that followed by '#' and a number: one
\* separator, at the front, and a delimiter after it.
ValidType(t) ==
    /\ Len(t) >= 3 /\ t[1] = "|"
    /\ \A i \in 2..Len(t) : t[i] # "|"
    /\ \E i \in 2..(Len(t) - 1) : t[i] = ":"

\* The type an item stands for.
ItemType(item) ==
    IF item.kind = "string" THEN item.value
    ELSE IF item.kind = "function" THEN item.type ELSE NoType

RECURSIVE Concatenation(_)
Concatenation(items) ==
    IF items = <<>> THEN <<>>
    ELSE ItemType(Head(items)) \o Concatenation(Tail(items))

\* C10: for items that all stand for valid types, handle returns the concatenation of the types, and the builder's split of it is the list of the types, in order.
C10_HandleSplitRoundTrip ==
    (/\ last.op \in {"handle", "split"}
     /\ \A i \in 1..Len(last.items) : ValidType(ItemType(last.items[i])))
    => /\ last.key = Concatenation(last.items)
       /\ last.op = "split" =>
             /\ Len(last.types) = Len(last.items)
             /\ \A i \in 1..Len(last.items) : last.types[i] = ItemType(last.items[i])

\* Three items were joined and split: a suffixed type given as a string, an
\* action, and the first type again.
C10_Witness ==
    /\ last.op = "split"
    /\ Len(last.items) = 3
    /\ \A i \in 1..3 : ValidType(ItemType(last.items[i]))
    /\ last.items[1].kind = "string" /\ Matches(last.items[1].value, {"#"})
    /\ last.items[2].kind = "function"
    /\ last.items[3] = last.items[1]
    /\ Len(last.types) = 3

(***************************************************************************)
(* C11.  handle(R) of a whole reducer R is the concatenation of all the    *)
(* types registered in R's dispatch table, so a handler declared under     *)
(* that key is registered for every type R handles.                        *)
(***************************************************************************)
\* handle(R)
HandleWhole(R) == HandleFunc(<<ReducerItem(R, handlerType)>>)

\* C11: handle(R) is the concatenation of the types of R's dispatch table, and a handler declared under it in another reducer is registered under each of them.
C11_HandleWholeReducer ==
    \A rid \in 1..Len(reducers) :
        LET R == reducers[rid]
        IN /\ HandleWhole(R) =
                 Join([i \in 1..Len(R.actionHandlers) |-> R.actionHandlers[i].name], <<>>)
           /\ \A other \in 1..Len(reducers) :
                 \A e \in CompositeEntries(reducers[other]) :
                    e.key = HandleWhole(R)
                    => RegisteredTypes(R) \subseteq RegisteredUnder(reducers[other], e.value)

(***************************************************************************)
(* C12.  handle drops every item that resolves to nothing: a value that is *)
(* neither a string nor a function, a function without a type tag, a       *)
(* reducer exposing no typed action.  When no item resolves the result is  *)
(* the empty string, and a reducer built with that key in its action map   *)
(* builds and exposes exactly its directly declared keys.                  *)
(***************************************************************************)
\* The typed functions among the properties of an item.
TypedProps(item) ==
    SelectSeq(item.props, LAMBDA f : f.kind = "function" /\ f.type # NoType /\ f.type # <<>>)

\* The item resolves to nothing.
Nothing(item) ==
    CASE item.kind = "string" -> item.value = <<>>
      [] item.kind = "function" -> item.type = NoType /\ TypedProps(item) = <<>>
      [] OTHER -> TRUE

\* What an item that resolves contributes to the key.
RECURSIVE TypesOf(_)
TypesOf(typed) ==
    IF typed = <<>> THEN <<>> ELSE Head(typed).type \o TypesOf(Tail(typed))

Contribution(item) ==
    CASE item.kind = "string" -> item.value
      [] item.type # NoType -> item.type
      [] OTHER -> TypesOf(TypedProps(item))

RECURSIVE Contributions(_)
Contributions(items) ==
    IF items = <<>> THEN <<>>
    ELSE (IF Nothing(Head(items)) THEN <<>> ELSE Contribution(Head(items)))
         \o Contributions(Tail(items))

\* The keys of an action map that are neither empty nor composite.
DirectlyDeclared(actions) ==
    LET kept == SelectSeq(actions.entries,
                          LAMBDA e : e.key # <<>> /\ ~IsCompositeKey(e.key))
    IN [i \in 1..Len(kept) |-> kept[i].key]

\* C12: the key handle returns is made of the items that resolve, in order, and is empty when none does; a build whose map holds the empty key succeeds, and the reducer's properties are the directly declared keys.
C12_UnresolvedItemsDropped ==
    /\ last.op = "handle"
       => /\ last.key = Contributions(last.items)
          /\ (\A i \in 1..Len(last.items) : Nothing(last.items[i])) => last.key = <<>>
    /\ (/\ last.op = "reducer"
        /\ \E i \in 1..Len(last.actions.entries) : last.actions.entries[i].key = <<>>)
       => /\ last.ok
          /\ LET R == reducers[last.reducer]
             IN /\ [i \in 1..Len(R.props) |-> R.props[i].name]
                       = DirectlyDeclared(last.actions)
                /\ Len(R.actionHandlers) = Len(R.props)

\* A reducer was built from a map holding the empty key handle returned, and
\* exposes the one key it declares.
C12_Witness ==
    /\ last.op = "reducer" /\ last.ok
    /\ Len(last.actions.entries) = 2
    /\ last.actions.entries[2].key = <<>>
    /\ Len(reducers[last.reducer].props) = 1
    /\ reducers[last.reducer].props[1].name = <<"a">>

(***************************************************************************)
(* C13.  An action-map entry whose value is not a function is ignored: the *)
(* build raises nothing, no type is produced for it, no property and no    *)
(* dispatch-table entry is added, and no later dispatch fails because of   *)
(* it.                                                                     *)
(***************************************************************************)
\* The entries of an action map whose value is not a function.
NonFunctions(actions) ==
    {actions.entries[i] : i \in
        {j \in 1..Len(actions.entries) : ~IsFunction(actions.entries[j].value)}}

\* C13: a build whose map holds non-function values succeeds, the reducer has no property, type or table entry for them, and no dispatch or direct call ends in a call of a non-function.
C13_NonFunctionsIgnored ==
    /\ (last.op = "reducer" /\ NonFunctions(last.actions) # {})
       => /\ last.ok
          /\ LET R == reducers[last.reducer]
             IN \A e \in NonFunctions(last.actions) :
                   /\ Slot(R.props, e.key) = {}
                   /\ \A i \in 1..Len(R.direct) : R.direct[i].name # e.key
                   /\ RegisteredUnder(R, e.value) = {}
    /\ \A pair \in DOMAIN returned :
          \A rid \in 1..Len(reducers) :
             reducers[rid].namespace = pair[1]
             => \A e \in NonFunctions(reducers[rid].actions) : e.key # pair[2]
    /\ last.op \in {"dispatch", "call"} => last.error # "handler is not a function"

\* The built reducers a reducer is made of.
RECURSIVE Leaves(_)
Leaves(ref) ==
    IF ref.ref = "reducer" THEN {ref.id}
    ELSE IF ref.ref = "none" THEN {}
    ELSE LET C == composed[ref.id]
         IN Leaves(C.parent) \cup
            UNION {Leaves(C.children[i].value) : i \in 1..Len(C.children)}

\* The reducer under ref handles the message: its type is registered in the
\* dispatch table of one of the built reducers ref is made of.
Handles(ref, action) ==
    /\ action # Undefined
    /\ \E r \in Leaves(ref) : action.type \in RegisteredTypes(reducers[r])

\* The events of a kind in the trace of the last call.
Events(kind) == SelectSeq(last.trace, LAMBDA e : e.ev = kind)

\* C14: a combined reducer called with any state and a message no child
\* handles returns the state it was given, and join is not called.
C14_UnhandledReturnsSameState ==
    (/\ last.op = "reduce"
     /\ composed[last.composed].kind = "combine"
     /\ ~Handles(ComposedRef(last.composed), last.action))
    => (/\ last.ok
        /\ last.value = last.state
        /\ Events("join") = <<>>)

\* The last call was made on a plain combination of two built reducers a
\* and b with a message of a type that a handles and b does not.
PlainPairCall ==
    /\ last.op = "reduce"
    /\ LET C == composed[last.composed]
       IN /\ C.kind = "combine"
          /\ C.policy = CombinePlainPolicy
          /\ Len(C.children) = 2
          /\ \A i \in 1..2 : C.children[i].value.ref = "reducer"
          /\ last.action # Undefined
          /\ last.action.type \in RegisteredTypes(reducers[C.children[1].value.id])
          /\ last.action.type \notin RegisteredTypes(reducers[C.children[2].value.id])

\* The value a built reducer's handlers make of a sub-state: the handler's
\* result for what the reducer was given, its initial state standing in for
\* undefined.
HandlerResult(R, subState, action) ==
    Apply(R.actions.entries[1].value,
          IF subState = Undefined THEN R.initialState ELSE subState, action)

\* The a slot of the output is a's handler result.
SlotAHandled ==
    LET C == composed[last.composed]
        a == C.children[1]
    IN Property(last.value, a.name) =
          HandlerResult(reducers[a.value.id], PlainPick(last.state, a.name),
                        last.action)

\* C15 as stated: for any state, the a slot of the output is a's handler
\* result and the b slot is the b slot of the input state.
C15_AnyStateKeepsSlotB ==
    PlainPairCall =>
        LET b == composed[last.composed].children[2]
        IN /\ last.ok
           /\ SlotAHandled
           /\ Property(last.value, b.name) = PlainPick(last.state, b.name)

\* C15, amended: the a slot of the output is a's handler result; the b slot
\* is what the plain pick gives for b on the input state when that is not
\* undefined, and b's initial state when it is.
C15_PlainCombineSlots ==
    PlainPairCall =>
        LET b == composed[last.composed].children[2]
            given == PlainPick(last.state, b.name)
        IN /\ last.ok
           /\ SlotAHandled
           /\ Property(last.value, b.name) =
                 IF given # Undefined THEN given
                 ELSE reducers[b.value.id].initialState

\* A call on a state that holds both slots gave a's handler result under a
\* and the given value under b.
C15_Witness ==
    /\ PlainPairCall
    /\ last.ok
    /\ last.state = PlainState(SlotStates)
    /\ Property(last.value, ChildKeys[2]) = Object("sb")
    /\ Property(last.value, ChildKeys[1]).js = "result"

\* ref[key]: the property of a reducer under a key, undefined when it has
\* none.
PropertyOf(ref, key) == Lookup(PropsOf(ref), key)

\* ref[path[1]][path[2]]...: a property reached through layers.
RECURSIVE Reach(_, _)
Reach(ref, path) ==
    IF path = <<>> THEN ref
    ELSE IF "ref" \notin DOMAIN ref THEN Undefined
    ELSE Reach(PropertyOf(ref, Head(path)), Tail(path))

\* The paths from a reducer to the reducers it is combined from, each with
\* the reducer it leads to.
RECURSIVE ChildPaths(_)
ChildPaths(ref) ==
    IF ref.ref # "composed" \/ composed[ref.id].kind # "combine" THEN {}
    ELSE LET children == composed[ref.id].children
         IN UNION {{[path |-> <<children[i].name>>, to |-> children[i].value]}
                   \cup {[path |-> <<children[i].name>> \o p.path, to |-> p.to] :
                            p \in ChildPaths(children[i].value)} :
                   i \in 1..Len(children)}

\* C16: what ActionizeBuild.combine returns exposes each child under its
\* key as the child reducer itself, so that through any number of layers a
\* path of keys leads to the original reducer and to its named actions.
C16_CombineExposesChildren ==
    api = "ActionizeBuild" =>
        \A cid \in 1..Len(composed) :
          \A p \in ChildPaths(ComposedRef(cid)) :
            /\ Reach(ComposedRef(cid), p.path) = p.to
            /\ p.to.ref = "reducer" =>
                  \A i \in 1..Len(reducers[p.to.id].props) :
                     Reach(ComposedRef(cid),
                           Append(p.path, reducers[p.to.id].props[i].name))
                        = reducers[p.to.id].props[i].value

\* A combination of a combination of a built reducer: the action of the
\* built reducer is two layers down.
C16_Witness ==
    /\ api = "ActionizeBuild"
    /\ \E cid \in 1..Len(composed) :
          \E p \in ChildPaths(ComposedRef(cid)) :
             /\ Len(p.path) = 2
             /\ p.to.ref = "reducer"
             /\ \E i \in 1..Len(reducers[p.to.id].props) :
                   LET f == Reach(ComposedRef(cid),
                                  Append(p.path, reducers[p.to.id].props[i].name))
                   IN "fn" \in DOMAIN f /\ f.fn = "actionCall"

\* What the reducer called last did itself, in order: the events of the
\* trace between its call and its return that are not inside the call of a
\* reducer it called.
RECURSIVE TopLevel(_, _)
TopLevel(trace, depth) ==
    IF trace = <<>> THEN <<>>
    ELSE LET e == Head(trace)
         IN IF e.ev = "call"
            THEN (IF depth = 1 THEN <<e>> ELSE <<>>) \o TopLevel(Tail(trace), depth + 1)
            ELSE IF e.ev = "return"
            THEN (IF depth = 2 THEN <<e>> ELSE <<>>) \o TopLevel(Tail(trace), depth - 1)
            ELSE (IF depth = 1 THEN <<e>> ELSE <<>>) \o TopLevel(Tail(trace), depth)

\* The last call was a call of a nested reducer that returned.
NestCall ==
    /\ last.op = "reduce"
    /\ composed[last.composed].kind = "nest"
    /\ last.ok

\* C17: a call of a nested reducer first calls the parent with the incoming
\* state; every pick that follows is made on the state the parent returned
\* and its value is the state the child is called with; join, when called,
\* is given the state the parent returned.
C17_ParentRunsFirst ==
    NestCall =>
        LET C == composed[last.composed]
            top == TopLevel(last.trace, 0)
            parentState == top[2].value
        IN /\ Len(top) >= 2
           /\ top[1] = [ev |-> "call", ref |-> C.parent, state |-> last.state]
           /\ top[2].ev = "return" /\ top[2].ref = C.parent
           /\ \A i \in 3..Len(top) :
                 /\ top[i].ev = "pick" =>
                       /\ top[i].state = parentState
                       /\ top[i].value = Pick(C.policy, parentState, top[i].key)
                       /\ i < Len(top)
                       /\ top[i + 1].ev = "call"
                       /\ top[i + 1].state = top[i].value
                 /\ top[i].ev = "call" =>
                       /\ top[i - 1].ev = "pick"
                       /\ \E k \in 1..Len(C.children) :
                             /\ C.children[k].name = top[i - 1].key
                             /\ C.children[k].value = top[i].ref
                 /\ top[i].ev = "join" => top[i].state = parentState
           /\ \A k \in 1..Len(C.children) :
                 \E i \in 3..Len(top) :
                    top[i].ev = "pick" /\ top[i].key = C.children[k].name

\* The parent's handler made a new state of the incoming one, and the
\* children were joined to it.
C17_Witness ==
    /\ NestCall
    /\ LET top == TopLevel(last.trace, 0)
       IN /\ top[2].value.js = "result"
          /\ top[2].value # last.state
          /\ \E i \in 3..Len(top) : top[i].ev = "join"

\* Object.keys(parent), with the values, of the parent a nested reducer was
\* made from.
ParentProps(N) == PropsOf(N.parent) \o N.extras

\* The keys of a list of properties.
KeysOf(props) == {props[i].name : i \in 1..Len(props)}

\* The nested reducer composed[cid] exposes each child reducer under its
\* key and every typed function of the parent under its key, and nothing
\* else.
NestExposure(cid) ==
    LET N == composed[cid]
        typed == SelectSeq(ParentProps(N), IsTypedAction)
    IN /\ \A i \in 1..Len(N.children) :
             PropertyOf(ComposedRef(cid), N.children[i].name) = N.children[i].value
       /\ \A i \in 1..Len(typed) :
             PropertyOf(ComposedRef(cid), typed[i].name) = typed[i].value
       /\ KeysOf(N.props) = KeysOf(N.children) \cup KeysOf(typed)

\* C18: what ActionizeBuild.nest returns exposes each child reducer under
\* its key and every property of the parent that is a function with a type
\* tag, and no other property of the parent.
C18_NestExposesChildrenAndActions ==
    api = "ActionizeBuild" =>
        \A cid \in 1..Len(composed) :
            composed[cid].kind = "nest" => NestExposure(cid)

\* The last two calls were N() and N(result, action) of a reducer N nested
\* under the plain policy from built reducers, with a message N does not
\* handle.
PlainNestCalledAgain ==
    /\ last.op = "again"
    /\ LET N == composed[last.composed]
       IN /\ N.kind = "nest"
          /\ N.policy = NestPlainPolicy
          /\ N.parent.ref = "reducer"
          /\ \A i \in 1..Len(N.children) : N.children[i].value.ref = "reducer"
    /\ ~Handles(ComposedRef(last.composed), last.action)

\* The parent's initial state extended with each child's initial state
\* under the child's key.
InitialNest(N) ==
    [js |-> "assigned", base |-> reducers[N.parent.id].initialState,
     slots |-> [i \in 1..Len(N.children) |->
                   [name |-> N.children[i].name,
                    value |-> reducers[N.children[i].value.id].initialState]]]

\* C19: under the plain policy a nested reducer called with no arguments
\* returns the parent's initial state extended with the children's initial
\* states, and called again with that result and an unmatched message it
\* returns the same object.
C19_InitialNestIsStable ==
    PlainNestCalledAgain =>
        /\ last.state = InitialNest(composed[last.composed])
        /\ last.ok
        /\ last.value = last.state

\* The structure combineImmutable is to use: the one given, and without one
\* the configured one.
ChosenStructure(args) ==
    IF args.structure # NoStructure THEN args.structure ELSE args.configured

\* A call of combineImmutable with neither a structure nor a configured one
\* throws the missing-structure error and returns no reducer; any other
\* call returns a reducer that picks with get and joins with the structure
\* chosen.
C20_Construction ==
    last.op = "combineImmutable" =>
        IF ChosenStructure(last.args) = NoStructure
        THEN /\ ~last.ok
             /\ last.error = "requires an Immutable structure"
             /\ last.composed = 0
        ELSE /\ last.ok
             /\ composed[last.composed].policy =
                   CombineImmutablePolicy(ChosenStructure(last.args))

\* Every reducer combineImmutable returned was made with a structure, and
\* every join of a call of it is made by that structure, of the values of
\* the children.
C20_Join ==
    /\ \A cid \in 1..Len(composed) :
          composed[cid].op = "combineImmutable" =>
             /\ ChosenStructure(composed[cid].args) # NoStructure
             /\ composed[cid].policy.join = "structure"
    /\ (last.op \in {"reduce", "again"}
        /\ composed[last.composed].op = "combineImmutable") =>
          LET top == TopLevel(last.trace, 0)
          IN \A i \in 1..Len(top) :
                top[i].ev = "join" =>
                   top[i].value =
                      [js |-> "structure",
                       by |-> ChosenStructure(composed[last.composed].args),
                       slots |-> top[i].values]

\* C20: combineImmutable fails at construction with the missing-structure
\* error when there is neither a structure argument nor a configured
\* Immutable, never joins as a plain object, and joins with the structure
\* given when one is given.
C20_CombineImmutableStructure == C20_Construction /\ C20_Join

\* Both cases happened in one behaviour: a construction failed for want of
\* a structure, and a reducer made with a structure given, where one was
\* configured as well, joined its children's values with the structure
\* given.
C20_Witness ==
    /\ nComposed = 2
    /\ Len(composed) = 1
    /\ last.op = "reduce"
    /\ composed[last.composed].op = "combineImmutable"
    /\ composed[last.composed].args =
          [structure |-> GivenStructure, configured |-> DefaultStructure]
    /\ last.ok
    /\ last.value.js = "structure"
    /\ last.value.by = GivenStructure

(***************************************************************************)
(* The validator of action types, run by get.                              *)
(***************************************************************************)
\* The types and the keys of the named actions of the reducer built i-th.
DirectTypes(i) == {reducers[i].direct[j].type : j \in 1..Len(reducers[i].direct)}
NamedKeys(i) == {reducers[i].direct[j].name : j \in 1..Len(reducers[i].direct)}

\* The call made last invoked a creator.
Invoked(call) == call.op \in {"define", "get"} /\ call.invoked

\* The creator returns a combination of two built reducers.
ReturnsPair(creator) ==
    /\ "kind" \in DOMAIN creator
    /\ creator.kind = "returns"
    /\ "ref" \in DOMAIN creator.value
    /\ creator.value.ref = "composed"
    /\ composed[creator.value.id].kind = "combine"
    /\ Len(composed[creator.value.id].children) = 2
    /\ \A i \in 1..2 : composed[creator.value.id].children[i].value.ref = "reducer"

\* The two built reducers of such a combination.
PairOf(creator) ==
    {composed[creator.value.id].children[i].value.id : i \in 1..2}

DifferentNamespaces(pair) ==
    \A i, j \in pair : i # j => reducers[i].namespace # reducers[j].namespace

ShareType(pair) ==
    \E i, j \in pair : i # j /\ DirectTypes(i) \cap DirectTypes(j) # {}

\* No type of the built reducer was recorded other than by a walk of the
\* reducer itself.
RecordedByItself(A, i) ==
    IsReserved(A.reducersReserved, LeafRef(i)) \/ DirectTypes(i) \cap A.actionTypes = {}

\* Reducers built in different namespaces have no type in common.
C21_DistinctTypes ==
    \A i, j \in 1..Len(reducers) :
        reducers[i].namespace # reducers[j].namespace =>
            DirectTypes(i) \cap DirectTypes(j) = {}

\* A get that validates a combination of two built reducers fails with the
\* duplicate error when the two have a type in common, and returns the
\* combination when they are of different namespaces.
C21_Validated ==
    (Invoked(last') /\ ReturnsPair(last'.creator)) =>
        LET pair == PairOf(last'.creator)
        IN /\ ShareType(pair) =>
                (~last'.ok /\ last'.error = "is defined twice")
           /\ (DifferentNamespaces(pair)
               /\ \A i \in pair : RecordedByItself(actionize, i)) =>
                (last'.ok /\ last'.value = last'.creator.value)

\* C21: two reducers built in different namespaces that declare the same
\* key get distinct action types and a tree that composes both passes the
\* validator get runs; a tree that composes two reducers whose named
\* actions carry the same type makes get fail with the duplicate error.
C21_NamespacesKeepTypesApart == []C21_DistinctTypes /\ [][C21_Validated]_vars

\* A get returned a combination of two reducers of different namespaces
\* that declare the same key.
C21_Witness ==
    /\ Invoked(last)
    /\ last.ok
    /\ ReturnsPair(last.creator)
    /\ DifferentNamespaces(PairOf(last.creator))
    /\ \E i, j \in PairOf(last.creator) : i # j /\ NamedKeys(i) \cap NamedKeys(j) # {}

\* The creator the call invoked returns a reducer that an earlier
\* invocation, of the creator of a name in before, returned and get
\* validated.
Revalidates(A, call, before) ==
    /\ Invoked(call)
    /\ call.creator.kind = "returns"
    /\ IsFunctionObject(call.creator.value)
    /\ \E i \in 1..Len(before) :
          Member(A.creators, before[i]).value = call.creator.value

\* The action functions that carry the type: the named actions of the
\* built reducers.
Carriers(type) ==
    {p \in (1..Len(reducers)) \X (1..MaxKeys) :
        /\ p[2] <= Len(reducers[p[1]].direct)
        /\ reducers[p[1]].direct[p[2]].type = type}

\* No reducer was nested: every action function is a property of one
\* reducer only.
NothingNested == \A c \in 1..Len(composed) : composed[c].kind # "nest"

\* C22: a repeat validation of a reducer raises no duplicate against
\* itself, that is of a type only one action function carries, and leaves
\* the recorded types and the reserved reducers unchanged.
C22_RepeatValidationIsIdle ==
    [][(NothingNested /\ Revalidates(actionize, last', invoked)) =>
          /\ last'.ok \/ Cardinality(Carriers(last'.twice)) > 1
          /\ actionize'.actionTypes = actionize.actionTypes
          /\ actionize'.reducersReserved = actionize.reducersReserved]_vars

\* C23: get fails with the duplicate error only for a type that two
\* distinct action functions carry; an action function that is a property
\* of several reducers, or of a reducer of several validated trees, never
\* causes the error.
C23_DuplicateNeedsTwoRegistrations ==
    (Invoked(last) /\ ~last.ok /\ last.error = "is defined twice") =>
        Cardinality(Carriers(last.twice)) > 1

\* The reducers get has validated and returned.
Validated ==
    {actionize.reducers[i].value : i \in 1..Len(actionize.reducers)}

\* The built reducers the validated trees are made of.
ValidatedLeaves == UNION {Leaves(r) : r \in Validated}

\* The action functions reachable in the tree of a reducer: its typed
\* properties and those of the reducers among its properties.
RECURSIVE ActionsOf(_)
ActionsOf(ref) ==
    LET props == PropsOf(ref)
    IN {props[i].value : i \in {j \in 1..Len(props) : IsTypedAction(props[j])}}
       \cup UNION {ActionsOf(props[i].value) :
                     i \in {j \in 1..Len(props) : "ref" \in DOMAIN props[j].value}}

\* C24 as stated: no type is registered in the dispatch tables of two of
\* the reducers the validated trees are made of, so that no message runs
\* handlers of two of them.
C24_NoTypeInTwoTables ==
    \A i, j \in ValidatedLeaves :
        i # j => RegisteredTypes(reducers[i]) \cap RegisteredTypes(reducers[j]) = {}

\* C24: once get returned, no two distinct action functions reachable in
\* the validated trees carry the same type.
C24_NoTypeOnTwoActions ==
    \A f, g \in UNION {ActionsOf(r) : r \in Validated} :
        f # g => f.type # g.type

\* Two validated reducers each with an action, of different types; one of
\* the trees is a composition.
C24_Witness ==
    /\ Invoked(last)
    /\ last.ok
    /\ last.value.ref = "composed"
    /\ Cardinality(UNION {ActionsOf(r) : r \in Validated}) > 1

(***************************************************************************)
(* The registry of names.                                                  *)
(***************************************************************************)
\* The names of the calls of the program.
Names == ValidNames \cup InvalidNames \cup {ConstructorName}

\* How often the creator of the name was invoked.
Invocations(history, name) ==
    Cardinality({i \in 1..Len(history) : history[i] = name})

\* C25: once a get of a name has returned a reducer, no call invokes the
\* creator of the name again or replaces the reducer kept for it, and
\* every call of get or define of the name that returns, returns the
\* reducer kept for it.
C25_CreatorRunsOnce ==
    [][\A n \in Names :
          /\ Member(actionize.reducers, n) # Undefined =>
                /\ Invocations(invoked', n) = Invocations(invoked, n)
                /\ Member(actionize'.reducers, n) = Member(actionize.reducers, n)
          /\ (last'.op \in {"get", "define"} /\ last'.name = n /\ last'.ok) =>
                last'.value = Member(actionize'.reducers, n)]_vars

\* A second get of a name returned the reducer its creator made when it
\* was invoked, once.
C25_Witness ==
    /\ last.op = "get"
    /\ last.ok
    /\ ~last.invoked
    /\ Invocations(invoked, last.name) = 1
    /\ last.creator = BuildsA
    /\ last.value = LeafRef(Len(reducers))

\* set accepts the name and the creator: the name is valid and not yet
\* defined, the creator is a function.
Definable(A, name, creator) ==
    /\ validateName(name).ok
    /\ IsFunctionObject(creator)
    /\ Member(A.creators, name) = Undefined

\* C26: set invokes no creator and builds nothing; a creator is invoked
\* only by a get or a define of its name for which no reducer is kept;
\* a define that set accepts invokes the creator in the same call, and the
\* reducer it returns is the one kept for later calls of get.
C26_SetIsLazyDefineIsNot ==
    [][/\ last'.op = "set" =>
             (invoked' = invoked /\ reducers' = reducers
              /\ actionize'.reducers = actionize.reducers)
       /\ invoked' # invoked =>
             /\ last'.op \in {"get", "define"}
             /\ invoked' = Append(invoked, last'.name)
             /\ Member(actionize.reducers, last'.name) = Undefined
             /\ last'.creator = Member(actionize'.creators, last'.name)
       /\ (last'.op = "define" /\ vars' # vars) =>
             IF Definable(actionize, last'.name, last'.creator)
             THEN /\ invoked' = Append(invoked, last'.name)
                  /\ last'.ok => last'.value = Member(actionize'.reducers, last'.name)
             ELSE ~last'.ok /\ invoked' = invoked]_vars

\* A define returned the reducer its creator made while another name that
\* was set has not had its creator invoked.
C26_Witness ==
    /\ last.op = "define"
    /\ last.ok
    /\ last.invoked
    /\ last.value = Member(actionize.reducers, last.name)
    /\ \E n \in ValidNames :
          /\ Member(actionize.creators, n) # Undefined
          /\ Invocations(invoked, n) = 0

\* The error set is to throw for the name and the creator, if any: the
\* checks are made in this order.
Rejection(A, name, creator) ==
    IF name = NotAString THEN "Actionize name must be a string."
    ELSE IF Matches(name, {"|", ":", "#"})
    THEN "Actionize name cannot contain characters"
    ELSE IF ~IsFunctionObject(creator) THEN "Creator given must be a function."
    ELSE IF Slot(A.creators, name) # {} THEN "Name given already defined."
    ELSE ""

\* C27: a set or a define whose name is no string or contains '|', ':' or
\* '#', whose creator is no function or whose name is defined, resolved by
\* get or not, throws the error of that case, invokes no creator, builds
\* nothing and leaves every field of the instance as it was.
C27_RejectedDefinitionChangesNothing ==
    [][(last'.op \in {"set", "define"} /\ vars' # vars
        /\ Rejection(actionize, last'.name, last'.creator) # "") =>
          /\ ~last'.ok
          /\ last'.error = Rejection(actionize, last'.name, last'.creator)
          /\ actionize' = actionize
          /\ invoked' = invoked
          /\ reducers' = reducers]_vars

\* A define of a name that get had resolved, with another creator than the
\* one registered, was rejected.
C27_Witness ==
    /\ last.op = "define"
    /\ ~last.ok
    /\ last.error = "Name given already defined."
    /\ Slot(actionize.reducers, last.name) # {}
    /\ Member(actionize.creators, last.name) # last.creator
    /\ Invocations(invoked, last.name) = 1

\* The creator returns a value that is no function.
ReturnsNoFunction(creator) ==
    /\ "kind" \in DOMAIN creator
    /\ creator.kind = "returns"
    /\ ~IsFunctionObject(creator.value)

\* C28: a get of a name that was never set, or whose creator returns a
\* value that is no function, throws, keeps no reducer for the name and
\* records no action type: every field of the instance is as it was.
C28_FailedGetChangesNothing ==
    [][(last'.op = "get" /\ vars' # vars
        /\ (Slot(actionize.creators, last'.name) = {}
            \/ ReturnsNoFunction(Member(actionize.creators, last'.name)))) =>
          /\ ~last'.ok
          /\ last'.error =
                (IF Slot(actionize.creators, last'.name) = {}
                 THEN "Name given to actionize.get(name) is not defined."
                 ELSE "Creator given must return a function.")
          /\ actionize' = actionize]_vars

(***************************************************************************)
(* The dispatcher.                                                         *)
(***************************************************************************)
\* A function tagged with a type.
IsTyped(value) == IsFunctionObject(value) /\ Truthy(TypeOfFunction(value))

\* A function that has no type, or an object that is not null.
IsNode(value) ==
    ~IsTyped(value) /\ (IsFunctionObject(value) \/ IsObjectValue(value))
    /\ ~Falsy(value)

\* Every value in the tree is a typed function, a reducer or a mapping.
RECURSIVE OfActionsAndNodes(_)
OfActionsAndNodes(value) ==
    \/ IsTyped(value)
    \/ /\ IsNode(value)
       /\ \A i \in 1..Len(EntriesOf(value)) :
             OfActionsAndNodes(EntriesOf(value)[i].value)

\* No value in the tree is null.
RECURSIVE NoNull(_)
NoNull(value) ==
    /\ value # Null
    /\ IsNode(value) =>
          \A i \in 1..Len(EntriesOf(value)) : NoNull(EntriesOf(value)[i].value)

\* A typed function is, or is reachable from, the value.
RECURSIVE HoldsAction(_)
HoldsAction(value) ==
    \/ IsTyped(value)
    \/ /\ IsNode(value)
       /\ \E i \in 1..Len(EntriesOf(value)) : HoldsAction(EntriesOf(value)[i].value)

\* The value of the key in a result level.
At(out, key) == out.entries[CHOOSE i \in Slot(out.entries, key) : TRUE].value

\* out is an invoker of the typed function src.
InvokerOf(src, out) == "fn" \in DOMAIN out /\ out.fn = "invoker" /\ out.of = src

\* out has the keys of src at every level, and an invoker where src has a
\* typed function.
RECURSIVE Parallel(_, _)
Parallel(src, out) ==
    IF IsTyped(src) THEN InvokerOf(src, out)
    ELSE /\ "js" \in DOMAIN out
         /\ out.js = "level"
         /\ KeysOf(out.entries) = KeysOf(EntriesOf(src))
         /\ \A i \in 1..Len(EntriesOf(src)) :
               Parallel(EntriesOf(src)[i].value, At(out, EntriesOf(src)[i].name))

\* out has, at every level, the keys of src whose value is or holds a
\* typed function, and an invoker where src has a typed function.
RECURSIVE Pruned(_, _)
Pruned(src, out) ==
    IF IsTyped(src) THEN InvokerOf(src, out)
    ELSE /\ "js" \in DOMAIN out
         /\ out.js = "level"
         /\ KeysOf(out.entries) =
               {EntriesOf(src)[i].name :
                   i \in {j \in 1..Len(EntriesOf(src)) :
                             HoldsAction(EntriesOf(src)[j].value)}}
         /\ \A i \in 1..Len(EntriesOf(src)) :
               HoldsAction(EntriesOf(src)[i].value) =>
                  Pruned(EntriesOf(src)[i].value, At(out, EntriesOf(src)[i].name))

\* A call of an invoker calls dispatch once, with the fields of the
\* payload and the type of the typed function, whatever type the payload
\* has.
EmitsOnce ==
    last.op = "invoker" =>
        /\ Len(last.emitted) = 1
        /\ last.emitted[1].type = TypeOfFunction(last.invoker.of)
        /\ last.emitted[1].payload =
              (IF last.args = Undefined THEN "none" ELSE last.args.payload)

\* C29 as stated: for a tree of typed functions, mappings and reducers the
\* result has the same keys at every level, and its invokers emit once.
C29_ParallelTree ==
    /\ (last.op = "dispatcher" /\ OfActionsAndNodes(last.actions)) =>
          (last.ok /\ Parallel(last.actions, last.result))
    /\ EmitsOnce

\* C29: for a tree that holds no null the result has, at every level, the
\* keys of the tree whose value is a typed function or a function or
\* object from which one is reachable, and its invokers emit once.
C29_PrunedTree ==
    /\ (last.op = "dispatcher" /\ NoNull(last.actions)) =>
          (last.ok /\ Pruned(last.actions, last.result))
    /\ EmitsOnce

\* An invoker two levels down in the result of a tree that lost a key was
\* called with a payload that has a type of its own.
C29_Witness ==
    /\ last.op = "invoker"
    /\ last.args # Undefined
    /\ last.args.type = UnregisteredType
    /\ Len(last.result.entries) < Len(EntriesOf(last.actions))
    /\ last.invoker \notin
          {last.result.entries[i].value : i \in 1..Len(last.result.entries)}

\* The source nodes that have an output node in out, each with its output
\* node, along every path from src.
RECURSIVE Outputs(_, _)
Outputs(src, out) ==
    {[src |-> src, out |-> out]} \cup
    (IF IsTyped(src) THEN {}
     ELSE UNION {Outputs(EntriesOf(src)[i].value, At(out, EntriesOf(src)[i].name)) :
                    i \in {j \in 1..Len(EntriesOf(src)) :
                              EntriesOf(src)[j].name \in KeysOf(out.entries)}})

\* A source node has the same output node on every path that reaches it.
SameOutput ==
    \A p, q \in Outputs(last.actions, last.result) :
        p.src = q.src => p.out = q.out

\* No value occurs twice in the sequence.
NoRepeat(seq) == \A i, j \in 1..Len(seq) : seq[i] = seq[j] => i = j

\* No value that holds a typed function occurs twice in the sequence.
NoRepeatOfHolders(seq) ==
    \A i, j \in 1..Len(seq) :
        (seq[i] = seq[j] /\ HoldsAction(seq[i])) => i = j

\* C30 as stated: in one call a source node has the same output node on
\* every path, and no source node is converted twice.
C30_EveryNodeConvertedOnce ==
    (last.op = "dispatcher" /\ last.ok) =>
        /\ SameOutput
        /\ NoRepeat(last.items)
        /\ NoRepeat(last.converted)

\* C30: in one call a source node has the same output node on every path,
\* and no source node that is or holds a typed function is converted
\* twice.
C30_MemoizedByIdentity ==
    (last.op = "dispatcher" /\ last.ok) =>
        /\ SameOutput
        /\ NoRepeat(last.items)
        /\ NoRepeatOfHolders(last.converted)

\* A mapping that holds a typed function was reached through two keys of
\* the tree and has one output node.
C30_Witness ==
    /\ last.op = "dispatcher"
    /\ last.ok
    /\ \E i, j \in 1..Len(last.result.entries) :
          /\ i # j
          /\ last.result.entries[i].value = last.result.entries[j].value
          /\ last.result.entries[i].value.made > 0
          /\ "js" \in DOMAIN last.result.entries[i].value
    /\ \E i, j \in 1..Len(EntriesOf(last.actions)) :
          /\ i # j
          /\ EntriesOf(last.actions)[i].value = EntriesOf(last.actions)[j].value
          /\ IsNode(EntriesOf(last.actions)[i].value)

(***************************************************************************)
(* The context provider.                                                   *)
(***************************************************************************)
\* The call ran by the provider's rule: the provider, when there is one,
\* was called once with the raw handler and the reducer and the handler ran
\* on what it returned; with none, the handler ran on null.
ByProvider(options, rid, call) ==
    IF options.context # Undefined
    THEN /\ call.provided = <<[provider |-> options.context,
                               args |-> <<call.handler, LeafRef(rid)>>]>>
         /\ call.receiver =
               ContextFunc(options.context, call.handler, LeafRef(rid))
    ELSE call.provided = <<>> /\ call.receiver = Null

\* The raw handlers the reducer runs for the message, in order.
RunFor(R, action) ==
    IF action = Undefined \/ Slot(R.actionHandlers, action.type) = {} THEN <<>>
    ELSE LET hs == R.actionHandlers[CHOOSE j \in Slot(R.actionHandlers, action.type) : TRUE].handlers
         IN [i \in 1..Len(hs) |-> hs[i].handler]

\* C31: every invocation of a handler of an ActionizeBuild reducer, by a
\* dispatch or by a call of a named action, for a direct or a composite
\* key, calls the configured provider with the raw handler and the reducer
\* and runs the raw handler on the value returned; with no provider the
\* handler runs on null.  The value returned is that of the last handler.
C31_HandlersRunOnContext ==
    /\ (last.op = "dispatchBuilt" /\ last.ok) =>
          /\ [i \in 1..Len(last.calls) |-> last.calls[i].handler] =
                RunFor(reducers[last.reducer], last.action)
          /\ \A i \in 1..Len(last.calls) :
                ByProvider(last.options, last.reducer, last.calls[i])
          /\ last.calls # <<>> =>
                last.value.receiver = last.calls[Len(last.calls)].receiver
    /\ last.op = "callBuilt" =>
          /\ Len(last.calls) = 1
          /\ last.calls[1].handler =
                Declared(reducers[last.reducer], last.key)
          /\ ByProvider(last.options, last.reducer, last.calls[1])
          /\ last.value.receiver = last.calls[1].receiver

\* A dispatch ran two handlers, one of them declared under a composite
\* key, with a provider configured.
C31_Witness ==
    /\ last.op = "dispatchBuilt"
    /\ last.options.context = Provider(1)
    /\ Len(last.calls) = 2
    /\ \E i \in 1..Len(reducers[last.reducer].actions.entries) :
          /\ IsCompositeKey(reducers[last.reducer].actions.entries[i].key)
          /\ reducers[last.reducer].actions.entries[i].value = last.calls[2].handler
    /\ last.calls[1].receiver # last.calls[2].receiver

(***************************************************************************)
(* The ready-made plain policies.                                          *)
(***************************************************************************)
\* What the caller of a reducer sees of a call.
Seen(r) == [ok |-> r.ok, error |-> r.error, value |-> r.value]

\* The composition made last was made by the operation.
MadeBy(op) ==
    /\ last.op \in {"reduce", "again"}
    /\ composed[last.composed].op = op

\* C32: for every state and message, a reducer made by combinePlain returns
\* what combine returns for the same reducers with the callbacks
\* (s, k) => s && s[k] and (s, v) => v, and a reducer made by nestPlain what
\* nest returns for the same parent and reducers with (s, k) => s && s[k]
\* and (s, v) => Object.assign({}, s, v).
C32_PlainPoliciesAreTheDocumentedCallbacks ==
    /\ MadeBy("combinePlain") =>
          Seen(last) =
             Seen(CombineFunc(composed[last.composed].children,
                              DocumentedCombinePolicy, last.state, last.action))
    /\ MadeBy("nestPlain") =>
          Seen(last) =
             Seen(NestFunc([composed[last.composed] EXCEPT
                               !.policy = DocumentedNestPolicy],
                           last.state, last.action))

\* A reducer made by nestPlain, with a reducer made by combinePlain among
\* its children, joined the values of its children to a plain object.
C32_Witness ==
    /\ MadeBy("nestPlain")
    /\ last.ok
    /\ last.state.js = "plain"
    /\ last.value.js = "assigned"
    /\ \E i \in 1..Len(composed[last.composed].children) :
          /\ composed[last.composed].children[i].value.ref = "composed"
          /\ composed[composed[last.composed].children[i].value.id].op = "combinePlain"
          /\ \E e \in 1..Len(last.trace) :
                /\ last.trace[e].ev = "join"
                /\ last.trace[e].value.js = "values"

(***************************************************************************)
(* One dispatch of a combined reducer.                                     *)
(***************************************************************************)
\* The last call was a call of a reducer that combine returned.
CombineCall ==
    /\ last.op \in {"reduce", "again"}
    /\ composed[last.composed].kind = "combine"

\* The places of the events of a kind among the events.
Places(top, kind) == {i \in 1..Len(top) : top[i].ev = kind}

\* A child returned something other than what pick gave for its key: a
\* return follows the call, and the call the pick.
SomeChildChanged(top) ==
    \E i \in Places(top, "return") : top[i].value # top[i - 2].value

\* The values join is given: under every child key, in order, what the
\* child returned.
ReturnedValues(C, top) ==
    [k \in 1..Len(C.children) |->
        [name |-> C.children[k].name, value |-> top[3 * k].value]]

\* C33: a dispatch of a combined reducer that returns has called join if
\* and only if a child returned a value other than pick(state, key); a
\* call of join is join(state, values) with the incoming state and every
\* child's returned value under its key, and its result is the result of
\* the dispatch; with no call of join the result is the incoming state.
C33_JoinIffChildChanged ==
    CombineCall =>
        LET C == composed[last.composed]
            top == TopLevel(last.trace, 0)
        IN /\ last.ok => ((Places(top, "join") # {}) <=> SomeChildChanged(top))
           /\ Places(top, "join") # {} =>
                 /\ SomeChildChanged(top)
                 /\ Places(top, "join") = {Len(top)}
                 /\ Len(top) = 3 * Len(C.children) + 1
                 /\ top[Len(top)].state = last.state
                 /\ top[Len(top)].values = ReturnedValues(C, top)
                 /\ top[Len(top)].value =
                       JoinValues(C.policy, last.state, ReturnedValues(C, top))
                 /\ last.ok
                 /\ last.value = top[Len(top)].value
           /\ (last.ok /\ Places(top, "join") = {}) => last.value = last.state

\* One child of two changed its value, the other did not, and join was
\* given both values.
C33_Witness ==
    /\ CombineCall
    /\ last.ok
    /\ LET top == TopLevel(last.trace, 0)
       IN /\ Len(top) = 7
          /\ top[7].ev = "join"
          /\ top[3].value = top[1].value
          /\ top[6].value # top[4].value
          /\ Len(top[7].values) = 2

(***************************************************************************)
(* Validation by the builder.                                              *)
(***************************************************************************)
\* The direct keys of the action map that have a function as value.
DirectFunctionKeys(actions) ==
    {actions.entries[i].key :
        i \in {j \in 1..Len(actions.entries) :
                  /\ IsFunction(actions.entries[j].value)
                  /\ actions.entries[j].key # <<>>
                  /\ ~IsCompositeKey(actions.entries[j].key)}}

\* The key has one of the characters a key may not have.
ReservedInKey(key) == Matches(key, {"|", ":", ".", "#"})

\* The type is '|' + namespace + ':' + key of parts without reserved
\* characters.
WellFormed(type, namespace, key) ==
    /\ type = <<"|">> \o namespace \o <<":">> \o key
    /\ ~BadNamespace(namespace)
    /\ ~ReservedInKey(key)

\* C34: a build by ActionizeBuild of a map that has direct function keys
\* fails with the namespace error when the builder's name has '|', ':' or
\* '#', and with the key error when one of the keys has '|', ':', '.' or
\* '#'; every type tag of a built reducer is '|' + namespace + ':' + key of
\* parts without reserved characters.
C34_BuilderValidatesNameAndKeys ==
    /\ (last.op = "reducer" /\ DirectFunctionKeys(last.actions) # {}) =>
          /\ BadNamespace(last.namespace) =>
                (~last.ok /\ last.error = "namespace cannot contain characters")
          /\ (/\ ~BadNamespace(last.namespace)
              /\ \E key \in DirectFunctionKeys(last.actions) : ReservedInKey(key)) =>
                (~last.ok /\ last.error = "key cannot contain characters")
    /\ \A r \in 1..Len(reducers) :
          \A i \in 1..Len(reducers[r].props) :
             WellFormed(reducers[r].props[i].value.type, reducers[r].namespace,
                        reducers[r].props[i].name)

(***************************************************************************)
(* nestImmutable.                                                          *)
(***************************************************************************)
\* The last call was a call of a reducer made by nestImmutable that
\* returned.
NestImmutableCall ==
    /\ last.op = "reduce"
    /\ composed[last.composed].op = "nestImmutable"
    /\ last.ok

\* The children that returned something other than their sub-state, by
\* their place among the children: after the call and the return of the
\* parent, each child has a pick, a call and a return.
ChangedChildren(C, top) ==
    {k \in 1..Len(C.children) : top[3 * k + 2].value # top[3 * k].value}

\* C35: when a child of a reducer made by nestImmutable returns a new
\* value, the state the nested reducer returns holds that value under the
\* child's key, whatever the incoming state, null and none included.
C35_ChildValueIsKept ==
    NestImmutableCall =>
        LET C == composed[last.composed]
            top == TopLevel(last.trace, 0)
        IN \A k \in ChangedChildren(C, top) :
              /\ ~Falsy(last.value)
              /\ Get(last.value, C.children[k].name) = top[3 * k + 2].value

(***************************************************************************)
(* The children of one dispatch of a combined reducer.                     *)
(***************************************************************************)
\* The last call was a call of a reducer that combine returned, and it
\* returned.
CombineReturned == CombineCall /\ last.ok

\* The children in the opposite order.
Backwards(children) ==
    [i \in 1..Len(children) |-> children[Len(children) + 1 - i]]

\* What the forEach of combine leaves: whether a child changed its value,
\* and the value under each key.
Collected(children, policy, state, action) ==
    LET acc == CombineChildren(children, policy, state, action,
                   [ok |-> TRUE, error |-> "", updated |-> FALSE,
                    values |-> <<>>, trace |-> <<>>])
    IN [ok |-> acc.ok, updated |-> acc.updated,
        values |-> {acc.values[i] : i \in 1..Len(acc.values)}]

\* C36: in a dispatch of a combined reducer that returns, every child is
\* called once, in the order of the keys, with pick(state, key) of the
\* incoming state; the values given to join and the decision to call it
\* are those of the children taken in the opposite order.
C36_ChildrenSeeIncomingState ==
    CombineReturned =>
        LET C == composed[last.composed]
            top == TopLevel(last.trace, 0)
        IN /\ Places(top, "call") = {3 * k - 1 : k \in 1..Len(C.children)}
           /\ \A k \in 1..Len(C.children) :
                 /\ top[3 * k - 2] =
                       [ev |-> "pick", state |-> last.state,
                        key |-> C.children[k].name,
                        value |-> Pick(C.policy, last.state, C.children[k].name)]
                 /\ top[3 * k - 1] =
                       [ev |-> "call", ref |-> C.children[k].value,
                        state |-> top[3 * k - 2].value]
                 /\ top[3 * k].ev = "return"
                 /\ top[3 * k].ref = C.children[k].value
           /\ Collected(C.children, C.policy, last.state, last.action) =
                 Collected(Backwards(C.children), C.policy, last.state, last.action)

\* Two children were called, the first changed its value, and the second
\* was given its own part of the incoming state.
C36_Witness ==
    /\ CombineReturned
    /\ Len(composed[last.composed].children) = 2
    /\ LET top == TopLevel(last.trace, 0)
       IN /\ top[3].value # top[1].value
          /\ top[5].state # top[3].value
          /\ top[5].state = top[4].value
          /\ top[4].value # top[1].value

(***************************************************************************)
(* What a nested reducer returns when no child changes its value.          *)
(***************************************************************************)
\* No child returned something other than its sub-state: after the call
\* and the return of the parent, each child has a pick, a call and a
\* return.
NoChildChanged(C, top) ==
    \A k \in 1..Len(C.children) : top[3 * k + 2].value = top[3 * k].value

\* C37: a call of a nested reducer in which no child changes its value
\* does not call join and returns what the parent returned: the incoming
\* state itself when the parent did not change it, the parent's new state
\* when it did.
C37_NestReturnsParentState ==
    NestCall =>
        LET C == composed[last.composed]
            top == TopLevel(last.trace, 0)
        IN NoChildChanged(C, top) =>
              /\ Places(top, "join") = {}
              /\ last.value = top[2].value
              /\ top[2].value = last.state => last.value = last.state

\* The parent made a new state, the child it has did not change its value,
\* and the nested reducer returned the parent's new state.
C37_Witness ==
    /\ NestCall
    /\ LET C == composed[last.composed]
           top == TopLevel(last.trace, 0)
       IN /\ C.children # <<>>
          /\ NoChildChanged(C, top)
          /\ top[2].value # last.state
          /\ top[2].value.js = "result"
          /\ last.value = top[2].value

(***************************************************************************)
(* A composite key that names a type more than once.                       *)
(***************************************************************************)
\* The calls of the handler among the calls of a dispatch, in order.
CallsOf(calls, h) == SelectSeq(calls, LAMBDA c : c.handler = h)

\* Each call after the first is made with what the call before it
\* returned, and the dispatch returns what the last one returned.
InSuccession(cs, value) ==
    /\ \A i \in 2..Len(cs) :
          cs[i].state = Apply(cs[i - 1].handler, cs[i - 1].state, cs[i - 1].action)
    /\ value = Apply(cs[Len(cs)].handler, cs[Len(cs)].state, cs[Len(cs)].action)

\* The entries of the action map of R under a composite key.
HandlingEntries(R) ==
    {R.actions.entries[i] :
        i \in {j \in 1..Len(R.actions.entries) :
                  IsCompositeKey(R.actions.entries[j].key)}}

\* C38: the handler of a composite key is registered under a type once for
\* every time the key names the type, and one dispatch of the type applies
\* it that many times in succession.
C38_RepeatedTypeRepeatsHandler ==
    /\ \A r \in 1..Len(reducers) :
          \A e \in HandlingEntries(reducers[r]) :
             \A t \in RegisteredTypes(reducers[r]) :
                Len(SelectSeq(
                       reducers[r].actionHandlers[
                          CHOOSE j \in Slot(reducers[r].actionHandlers, t) : TRUE].handlers,
                       LAMBDA f : f.handler = e.value)) = Occurrences(e.key, t)
    /\ (last.op = "dispatch" /\ last.ok /\ last.action # Undefined) =>
          \A e \in HandlingEntries(reducers[last.reducer]) :
             LET cs == CallsOf(last.calls, e.value)
             IN /\ Len(cs) = Occurrences(e.key, last.action.type)
                /\ cs # <<>> => InSuccession(cs, last.value)

\* A dispatch of a type that the composite key names twice applied the
\* key's handler twice.
C38_Witness ==
    /\ last.op = "dispatch"
    /\ last.ok
    /\ last.action # Undefined
    /\ \E e \in HandlingEntries(reducers[last.reducer]) :
          /\ Occurrences(e.key, last.action.type) = 2
          /\ Len(CallsOf(last.calls, e.value)) = 2
          /\ Len(last.calls) = 3

\* The call failed with the duplicate-action-type error.
FailedTwice(call) ==
    /\ call.op \in {"get", "define"}
    /\ ~call.ok
    /\ call.error = "is defined twice"

\* The failed call left the types its walk recorded, cached no reducer
\* for the name and had invoked the creator.
KeptWhatItRecorded(A, B, call) ==
    /\ A.actionTypes \subseteq B.actionTypes
    /\ Member(B.reducers, call.name) = Undefined
    /\ B.reducers = A.reducers
    /\ call.invoked

\* The step is a get of the name whose get has just failed with the
\* duplicate error.
GetsAgain(before, call) ==
    /\ FailedTwice(before)
    /\ call.op = "get"
    /\ call.name = before.name

\* The failed get keeps what it recorded and caches nothing, and the next
\* get of the name invokes the creator again and fails again with a
\* duplicate error.
FailsAgain ==
    [][/\ (vars' # vars /\ FailedTwice(last')) =>
             KeptWhatItRecorded(actionize, actionize', last')
       /\ (vars' # vars /\ GetsAgain(last, last')) =>
             /\ FailedTwice(last')
             /\ invoked' = Append(invoked, last'.name)]_vars

\* C39: when get(name) fails with the duplicate-action-type error, the
\* types recorded before the failure stay recorded and no reducer is
\* cached, and the next get(name) invokes the creator again and fails with
\* the same error: the one that names the same action type.
C39_FailsAgainWithTheSameError ==
    [][/\ (vars' # vars /\ FailedTwice(last')) =>
             KeptWhatItRecorded(actionize, actionize', last')
       /\ (vars' # vars /\ GetsAgain(last, last')) =>
             /\ FailedTwice(last')
             /\ invoked' = Append(invoked, last'.name)
             /\ last'.twice = last.twice]_vars

\* The names the creator of a name gets while it runs.
DepsOf(A, n) ==
    LET creator == Member(A.creators, n)
    IN IF creator = Undefined THEN {}
       ELSE IF creator.kind = "gets" THEN {creator.deps[i] : i \in DOMAIN creator.deps}
       ELSE {}

\* The names reached from those of S through the creators that have to
\* run: a name that has a reducer stored needs no creator.
RECURSIVE Reached(_, _)
Reached(A, S) ==
    LET T == S \cup UNION {DepsOf(A, n) : n \in {m \in S : Member(A.reducers, m) = Undefined}}
    IN IF T = S THEN S ELSE Reached(A, T)

\* The names reached from those of S through the creators.
RECURSIVE Below(_, _)
Below(A, S) ==
    LET T == S \cup UNION {DepsOf(A, n) : n \in S}
    IN IF T = S THEN S ELSE Below(A, T)

\* No creator gets, directly or through other creators, its own name.
Acyclic(A) == \A n \in DepNames : n \notin Below(A, DepsOf(A, n))

\* Every creator returns a function.
AllReturnFunctions(A) ==
    \A i \in 1..Len(A.creators) : IsFunctionObject(A.creators[i].value.value)

\* How often the event happened during the call.
Times(call, ev, n) ==
    Len(SelectSeq(call.events, LAMBDA e : e = Happened(ev, n)))

\* When the creator of the name outer returned, the reducer of each name
\* it gets was in _reducers.
StoredBeforeReturn(A, call, outer) ==
    \A k \in 1..Len(call.events) :
        call.events[k] = Happened("returned", outer) =>
            \A d \in DepsOf(A, outer) :
                \E j \in 1..(k - 1) :
                    call.events[j] \in {Happened("stored", d),
                                        Happened("cached before", d)}

\* A call of get of the program whose creators get one another.
IsNestedGet(call) == call.op = "get" /\ "events" \in DOMAIN call

\* C40: when no creator gets its own name, directly or through others,
\* and every creator returns a function, get(name) terminates and invokes
\* no creator twice; when it returns, it has invoked once the creator of
\* each name it depends on that had no reducer stored, and no other; and
\* the reducer of a nested get is stored before the outer creator returns.
C40_AcyclicGetsInvokeOnce ==
    [][(/\ vars' # vars
        /\ IsNestedGet(last')
        /\ Acyclic(actionize)
        /\ AllReturnFunctions(actionize)) =>
          /\ last'.error # "Maximum call stack size exceeded"
          /\ \A n \in DepNames :
                /\ Times(last', "invoked", n) <= 1
                /\ StoredBeforeReturn(actionize, last', n)
                /\ last'.ok =>
                      /\ Times(last', "invoked", n) =
                            IF /\ n \in Reached(actionize, {last'.name})
                               /\ Member(actionize.reducers, n) = Undefined
                            THEN 1 ELSE 0
                      /\ n \in Reached(actionize, {last'.name}) =>
                            Member(actionize'.reducers, n) # Undefined]_vars

\* A get returned after it invoked the creators of three names, one of
\* which two of them get.
C40_Witness ==
    /\ IsNestedGet(last)
    /\ last.ok
    /\ Acyclic(actionize)
    /\ AllReturnFunctions(actionize)
    /\ \A n \in DepNames : Times(last, "invoked", n) = 1
    /\ \E n \in DepNames : Times(last, "cached before", n) = 1

====
